---- MODULE Spec2Model ----
(***************************************************************************)
(* Model of the rustyban mutation engine: the Board / Column / Card data   *)
(* model (src/src/core), the reversible commands (src/src/domain/commands) *)
(* and the CommandHistory undo/redo stacks (src/src/domain).               *)
(*                                                                         *)
(* Indices are 0-based as in the source; TLA+ sequences are 1-based, so    *)
(* the card at index i of a column is cards[i + 1].                        *)
(* Option<T> is modelled as a sequence: <<>> is None, <<x>> is Some(x).    *)
(***************************************************************************)
EXTENDS Integers, Sequences, FiniteSets, TLC

\* ------------------------------------------------------------------ bounds
\* Largest number of cards a board holds in the model.
MaxCards == 3
\* Number of distinct card contents.
NumDescs == 2
\* Largest card index passed to an operation.
MaxIdx == 3
\* Largest capacity passed to CommandHistory::with_max_history.
MaxCap == 1
\* Largest number of cards on a board driven through the CommandHistory.
HMaxCards == 2
\* Largest card index passed to a command run through the CommandHistory.
HMaxIdx == 1
\* Largest number of cards on the board an App starts on.
AppInitCards == 2
\* Largest number of cards on an App's board.
AppMaxCards == 4
\* Number of commands on an App's undo stack after which the user issues
\* no further one, except one right after an undo that did not succeed.
AppMaxDepth == 1

\* Card contents.  One token stands for the (short_description,
\* long_description, creation_date) triple: no engine operation looks into
\* or changes a single one of them, cards are cloned and replaced whole.
Descs == 1..NumDescs

\* Column counts of the boards the model starts from.  Board::new builds 3
\* and a board read from a file has as many as the file lists; two columns
\* already give every column a role: a first one, a last one, a neighbour.
ColCounts == {1, 2}

\* Column counts of the boards driven through the CommandHistory.
HColCounts == {2}

\* ------------------------------------------------------------- sequences
Min(a, b) == IF a < b THEN a ELSE b

\* Vec::insert(i, x), i <= len
InsertAt(s, i, x) == SubSeq(s, 1, i) \o <<x>> \o SubSeq(s, i + 1, Len(s))

\* Vec::remove(i), i < len
RemoveAt(s, i) == SubSeq(s, 1, i) \o SubSeq(s, i + 2, Len(s))

\* slice::swap(i, j), i, j < len
SwapAt(s, i, j) == [s EXCEPT ![i + 1] = s[j + 1], ![j + 1] = s[i + 1]]

\* ------------------------------------------------------------------ Card
Card(d) == [short_description |-> d, is_selected |-> FALSE]

CardSelect(card) == [card EXCEPT !.is_selected = TRUE]

CardDeselect(card) == [card EXCEPT !.is_selected = FALSE]

\* ---------------------------------------------------------------- Column
\* A column is its Vec<Card>.  Every Column method returns a record
\* [panic, cards, ret]: whether the call panicked, the cards afterwards and
\* the return value.
ColOut(p, cards, ret) == [panic |-> p, cards |-> cards, ret |-> ret]

ColumnCard(cards, i) == IF i < Len(cards) THEN <<cards[i + 1]>> ELSE <<>>

ColumnInsertCard(cards, card, index) ==
  IF index > Len(cards)
    THEN ColOut(TRUE, cards, 0)
    ELSE ColOut(FALSE, InsertAt(cards, index, card), 0)

\* remove_card returning the index it was given, without the min against
\* the new last index.
ColumnRemoveCard_ReturnsIndex(cards, index) ==
  IF Len(cards) = 0 THEN ColOut(FALSE, cards, 0)
  ELSE IF index >= Len(cards) THEN ColOut(TRUE, cards, 0)
  ELSE ColOut(FALSE, RemoveAt(cards, index),
              IF Len(cards) = 1 THEN 0 ELSE index)

ColumnRemoveCard(cards, index) ==
  IF Len(cards) = 0 THEN ColOut(FALSE, cards, 0)
  ELSE IF index >= Len(cards) THEN ColOut(TRUE, cards, 0)
  ELSE LET rest == RemoveAt(cards, index)
       IN  IF Len(rest) = 0
             THEN ColOut(FALSE, rest, 0)
             ELSE ColOut(FALSE, rest, Min(index, Len(rest) - 1))

\* ret is the Option<Card>
ColumnTakeCard(cards, index) ==
  IF index < Len(cards)
    THEN ColOut(FALSE, RemoveAt(cards, index), <<cards[index + 1]>>)
    ELSE ColOut(FALSE, cards, <<>>)

ColumnSelectCard(cards, card_index) ==
  IF Len(cards) = 0 THEN ColOut(FALSE, cards, 0)
  ELSE IF card_index >= Len(cards) THEN ColOut(TRUE, cards, 0)
  ELSE ColOut(FALSE,
              [cards EXCEPT ![card_index + 1] = CardSelect(@)], 0)

ColumnDeselectCard(cards, card_index) ==
  IF Len(cards) = 0 THEN ColOut(FALSE, cards, 0)
  ELSE IF card_index >= Len(cards) THEN ColOut(TRUE, cards, 0)
  ELSE ColOut(FALSE,
              [cards EXCEPT ![card_index + 1] = CardDeselect(@)], 0)

ColumnUpdateCard(cards, card_index, card) ==
  IF Len(cards) = 0 THEN ColOut(FALSE, cards, 0)
  ELSE IF card_index >= Len(cards) THEN ColOut(TRUE, cards, 0)
  ELSE ColOut(FALSE, [cards EXCEPT ![card_index + 1] = card], 0)

ColumnIncreasePriority(cards, card_index) ==
  IF card_index > 0 /\ card_index < Len(cards)
    THEN ColOut(FALSE, SwapAt(cards, card_index, card_index - 1),
                card_index - 1)
    ELSE ColOut(FALSE, cards, card_index)

\* On an empty column `self.cards.len() - 1` underflows: a debug build
\* panics on the subtraction, a release build wraps and panics in swap.
ColumnDecreasePriority(cards, card_index) ==
  IF Len(cards) = 0 THEN ColOut(TRUE, cards, card_index)
  ELSE IF card_index < Len(cards) - 1
    THEN ColOut(FALSE, SwapAt(cards, card_index, card_index + 1),
                card_index + 1)
    ELSE ColOut(FALSE, cards, card_index)

\* ----------------------------------------------------------------- Board
\* A board is its Vec<Column>.  Every Board method returns a record
\* [st, board, ret]: st is "Ok", "Err" (an Err(RustybanError) return) or
\* "Panic"; ret is the value inside Ok, or the pair returned.
BOut(st, b, ret) == [st |-> st, board |-> b, ret |-> ret]

columns_count(b) == Len(b)

BoardColumn(b, index) == IF index < Len(b) THEN <<b[index + 1]>> ELSE <<>>

BoardCard(b, column_index, card_index) ==
  IF column_index < Len(b)
    THEN ColumnCard(b[column_index + 1], card_index)
    ELSE <<>>

\* Lifts a Column method's outcome into the board.
InColumn(b, column_index, out, ret) ==
  IF out.panic
    THEN BOut("Panic", b, ret)
    ELSE BOut("Ok", [b EXCEPT ![column_index + 1] = out.cards], ret)

BoardInsertCard(b, column_index, card_index, card) ==
  IF column_index >= Len(b) THEN BOut("Err", b, <<>>)
  ELSE InColumn(b, column_index,
                ColumnInsertCard(b[column_index + 1], card, card_index),
                <<>>)

BoardRemoveCard(b, column_index, card_index) ==
  IF column_index >= Len(b) THEN BOut("Err", b, <<>>)
  ELSE LET out == ColumnRemoveCard(b[column_index + 1], card_index)
       IN  InColumn(b, column_index, out, <<column_index, out.ret>>)

BoardSelectCard(b, column_index, card_index) ==
  IF column_index >= Len(b) THEN BOut("Err", b, <<>>)
  ELSE InColumn(b, column_index,
                ColumnSelectCard(b[column_index + 1], card_index), <<>>)

BoardDeselectCard(b, column_index, card_index) ==
  IF column_index >= Len(b) THEN BOut("Err", b, <<>>)
  ELSE InColumn(b, column_index,
                ColumnDeselectCard(b[column_index + 1], card_index), <<>>)

BoardUpdateCard(b, column_index, card_index, card) ==
  IF column_index >= Len(b) THEN BOut("Err", b, <<>>)
  ELSE InColumn(b, column_index,
                ColumnUpdateCard(b[column_index + 1], card_index, card),
                <<>>)

\* self.columns[column_index] panics on a column that does not exist.
BoardIncreasePriority(b, column_index, card_index) ==
  IF column_index >= Len(b)
    THEN BOut("Panic", b, <<column_index, card_index>>)
    ELSE LET out == ColumnIncreasePriority(b[column_index + 1], card_index)
         IN  InColumn(b, column_index, out, <<column_index, out.ret>>)

BoardDecreasePriority(b, column_index, card_index) ==
  IF column_index >= Len(b)
    THEN BOut("Panic", b, <<column_index, card_index>>)
    ELSE LET out == ColumnDecreasePriority(b[column_index + 1], card_index)
         IN  InColumn(b, column_index, out, <<column_index, out.ret>>)

\* Relocate putting the taken card at the end of column `to`.
Relocate_Append(b, column_index, card_index, to) ==
  LET out == ColumnTakeCard(b[column_index + 1], card_index)
  IN  IF out.ret = <<>>
        THEN b
        ELSE [b EXCEPT ![column_index + 1] = out.cards,
                       ![to + 1] = Append(b[to + 1], out.ret[1])]

\* Moves the taken card (if any) to index 0 of column `to`.
Relocate(b, column_index, card_index, to) ==
  LET out == ColumnTakeCard(b[column_index + 1], card_index)
  IN  IF out.ret = <<>>
        THEN b
        ELSE [b EXCEPT ![column_index + 1] = out.cards,
                       ![to + 1] = InsertAt(b[to + 1], 0, out.ret[1])]

\* `self.columns.len() - 1` underflows on a board without columns.
BoardMarkCardDone(b, column_index, card_index) ==
  IF Len(b) = 0 THEN BOut("Panic", b, <<column_index, card_index>>)
  ELSE IF column_index >= Len(b) - 1
    THEN BOut("Ok", b, <<column_index, card_index>>)
    ELSE BOut("Ok", Relocate(b, column_index, card_index, column_index + 1),
              <<column_index + 1, 0>>)

\* A column_index past the last column panics in self.columns[column_index].
BoardMarkCardUndone(b, column_index, card_index) ==
  IF column_index = 0 THEN BOut("Ok", b, <<column_index, card_index>>)
  ELSE IF column_index >= Len(b)
    THEN BOut("Panic", b, <<column_index, card_index>>)
    ELSE BOut("Ok", Relocate(b, column_index, card_index, column_index - 1),
              <<column_index - 1, 0>>)

\* serde output of the board: is_selected is #[serde(skip)].
Serialized(b) ==
  [c \in 1..Len(b) |->
     [i \in 1..Len(b[c]) |-> b[c][i].short_description]]

CardCount(b) ==
  LET RECURSIVE Sum(_)
      Sum(k) == IF k = 0 THEN 0 ELSE Len(b[k]) + Sum(k - 1)
  IN  Sum(Len(b))

\* --------------------------------------------------------- CommandResult
\* Outcome of Command::execute / Command::undo.  kind is "Success" or
\* "Failure" for Ok(CommandResult), "Err" for an Err(RustybanError) return
\* and "Panic" when the call does not return.  msg is the message as
\* written in the source, format placeholders left in place.
Success == [kind |-> "Success", msg |-> ""]

Failure(msg) == [kind |-> "Failure", msg |-> msg]

ErrResult == [kind |-> "Err", msg |-> "IndexOutOfBounds"]

PanicResult == [kind |-> "Panic", msg |-> ""]

\* matches!(result, Success | SuccessWithMessage(_)); no command of the
\* crate builds a SuccessWithMessage.
IsSuccess(result) == result.kind = "Success"

check_already_executed(executed) ==
  IF executed THEN <<Failure("Command already executed")>> ELSE <<>>

\* check_not_executed with the guard left out.
check_not_executed_Skipped(executed) == <<>>

check_not_executed(executed) ==
  IF ~executed THEN <<Failure("Command was not executed")>> ELSE <<>>

validate_card_exists(b, column_index, card_index) ==
  IF BoardCard(b, column_index, card_index) = <<>>
    THEN Failure("Card not found at column {}, index {}")
    ELSE Success

validate_card_exists_for_undo(b, column_index, card_index) ==
  IF BoardCard(b, column_index, card_index) = <<>>
    THEN Failure("Card not found at column {}, index {} for undo")
    ELSE Success

\* Outcome of a command call: the command instance afterwards, the board
\* afterwards and the result.
CO(c, b, result) == [cmd |-> c, board |-> b, result |-> result]

\* ------------------------------------------------------ InsertCardCommand
InsertCardCommand(column_index, card_index, card) ==
  [variant |-> "Insert", column_index |-> column_index,
   card_index |-> card_index, card |-> card, executed |-> FALSE]

InsertExecute(c, b) ==
  LET r == BoardInsertCard(b, c.column_index, c.card_index, c.card)
  IN  CASE r.st = "Err" -> CO(c, b, ErrResult)
        [] r.st = "Panic" -> CO(c, b, PanicResult)
        [] OTHER -> CO([c EXCEPT !.executed = TRUE], r.board, Success)

InsertUndo(c, b) ==
  IF ~c.executed THEN CO(c, b, Failure("Command was not executed"))
  ELSE LET r == BoardRemoveCard(b, c.column_index, c.card_index)
       IN  CASE r.st = "Ok" ->
                  CO([c EXCEPT !.executed = FALSE], r.board, Success)
             [] r.st = "Err" ->
                  CO(c, b, Failure("Failed to undo insert: {}"))
             [] OTHER -> CO(c, b, PanicResult)

\* ------------------------------------------------------ RemoveCardCommand
RemoveCardCommand(column_index, card_index) ==
  [variant |-> "Remove", column_index |-> column_index,
   card_index |-> card_index, card |-> <<>>, executed |-> FALSE]

RemoveExecute(c, b) ==
  IF check_already_executed(c.executed) # <<>>
    THEN CO(c, b, check_already_executed(c.executed)[1])
  ELSE IF validate_card_exists(b, c.column_index, c.card_index).kind
            = "Failure"
    THEN CO(c, b, validate_card_exists(b, c.column_index, c.card_index))
  ELSE LET c1 == [c EXCEPT
                    !.card = BoardCard(b, c.column_index, c.card_index)]
           r == BoardRemoveCard(b, c.column_index, c.card_index)
       IN  CASE r.st = "Ok" ->
                  CO([c1 EXCEPT !.executed = TRUE], r.board, Success)
             [] r.st = "Err" ->
                  CO(c1, b, Failure("Failed to remove card: {}"))
             [] OTHER -> CO(c1, b, PanicResult)

\* undo putting back a card built from the stored contents (the contents
\* that are written to a file) in place of the stored card itself.
RemoveUndo_FromContents(c, b) ==
  IF check_not_executed(c.executed) # <<>>
    THEN CO(c, b, check_not_executed(c.executed)[1])
  ELSE IF c.card = <<>>
    THEN CO(c, b, Failure("Card data not available for undo"))
  ELSE LET r == BoardInsertCard(b, c.column_index, c.card_index,
                                Card(c.card[1].short_description))
       IN  CASE r.st = "Ok" ->
                  CO([c EXCEPT !.executed = FALSE], r.board, Success)
             [] r.st = "Err" ->
                  CO(c, b, Failure("Failed to undo remove: {}"))
             [] OTHER -> CO(c, b, PanicResult)

RemoveUndo(c, b) ==
  IF check_not_executed(c.executed) # <<>>
    THEN CO(c, b, check_not_executed(c.executed)[1])
  ELSE IF c.card = <<>>
    THEN CO(c, b, Failure("Card data not available for undo"))
  ELSE LET r == BoardInsertCard(b, c.column_index, c.card_index, c.card[1])
       IN  CASE r.st = "Ok" ->
                  CO([c EXCEPT !.executed = FALSE], r.board, Success)
             [] r.st = "Err" ->
                  CO(c, b, Failure("Failed to undo remove: {}"))
             [] OTHER -> CO(c, b, PanicResult)

\* ------------------------------------------------------ UpdateCardCommand
UpdateCardCommand(column_index, card_index, new_card) ==
  [variant |-> "Update", column_index |-> column_index,
   card_index |-> card_index, new_card |-> new_card, old_card |-> <<>>,
   executed |-> FALSE]

UpdateExecute(c, b) ==
  IF check_already_executed(c.executed) # <<>>
    THEN CO(c, b, check_already_executed(c.executed)[1])
  ELSE IF validate_card_exists(b, c.column_index, c.card_index).kind
            = "Failure"
    THEN CO(c, b, validate_card_exists(b, c.column_index, c.card_index))
  ELSE LET c1 == [c EXCEPT
                    !.old_card = BoardCard(b, c.column_index, c.card_index)]
           r == BoardUpdateCard(b, c.column_index, c.card_index, c.new_card)
       IN  CASE r.st = "Ok" ->
                  CO([c1 EXCEPT !.executed = TRUE], r.board, Success)
             [] r.st = "Err" ->
                  CO(c1, b, Failure("Failed to update card: {}"))
             [] OTHER -> CO(c1, b, PanicResult)

UpdateUndo(c, b) ==
  IF ~c.executed THEN CO(c, b, Failure("Command was not executed"))
  ELSE IF c.old_card = <<>>
    THEN CO(c, b, Failure("Old card data not available for undo"))
  ELSE LET r == BoardUpdateCard(b, c.column_index, c.card_index,
                                c.old_card[1])
       IN  CASE r.st = "Ok" ->
                  CO([c EXCEPT !.executed = FALSE], r.board, Success)
             [] r.st = "Err" ->
                  CO(c, b, Failure("Failed to undo update: {}"))
             [] OTHER -> CO(c, b, PanicResult)

\* -------------------------------------------------- ChangePriorityCommand
ChangePriorityCommand(column_index, card_index, increase) ==
  [variant |-> "ChangePriority", column_index |-> column_index,
   card_index |-> card_index, increase |-> increase,
   original_card_index |-> <<>>, executed |-> FALSE]

ChangePriorityExecute(c, b) ==
  IF c.executed THEN CO(c, b, Failure("Command already executed"))
  ELSE IF BoardCard(b, c.column_index, c.card_index) = <<>>
    THEN CO(c, b, Failure("Card not found at column {}, index {}"))
  ELSE LET c1 == [c EXCEPT !.original_card_index = <<c.card_index>>]
           r == IF c.increase
                  THEN BoardIncreasePriority(b, c.column_index, c.card_index)
                  ELSE BoardDecreasePriority(b, c.column_index, c.card_index)
       IN  IF r.st = "Panic" THEN CO(c1, b, PanicResult)
           ELSE CO([c1 EXCEPT !.card_index = r.ret[2], !.executed = TRUE],
                   r.board, Success)

ChangePriorityUndo(c, b) ==
  IF ~c.executed THEN CO(c, b, Failure("Command was not executed"))
  ELSE IF c.original_card_index = <<>>
    THEN CO(c, b, Failure("Original card index not available for undo"))
  ELSE IF BoardCard(b, c.column_index, c.card_index) = <<>>
    THEN CO(c, b, Failure("Card not found at column {}, index {} for undo"))
  ELSE LET r == IF c.increase
                  THEN BoardDecreasePriority(b, c.column_index, c.card_index)
                  ELSE BoardIncreasePriority(b, c.column_index, c.card_index)
       IN  IF r.st = "Panic" THEN CO(c, b, PanicResult)
           ELSE CO([c EXCEPT !.card_index = c.original_card_index[1],
                             !.executed = FALSE],
                   r.board, Success)

\* -------------------------------------------------------- MoveCardCommand
MoveCardCommand(source_column_index, source_card_index, target_column_index, target_card_index) ==
  [variant |-> "MoveCard",
   source_column_index |-> source_column_index,
   source_card_index |-> source_card_index,
   target_column_index |-> target_column_index,
   target_card_index |-> target_card_index,
   actual_target_index |-> <<>>, card |-> <<>>, executed |-> FALSE]

\* usize::saturating_sub(1)
SaturatingDec(n) == IF n = 0 THEN 0 ELSE n - 1

\* The target index without the decrement of a same-column move whose
\* source lies before its target.
MoveAdjustedTarget_Nominal(c, b) ==
  LET same == c.source_column_index = c.target_column_index
      column_size == IF BoardColumn(b, c.target_column_index) = <<>>
                       THEN 0
                       ELSE Len(BoardColumn(b, c.target_column_index)[1])
  IN  IF same THEN Min(c.target_card_index, column_size - 1)
              ELSE Min(c.target_card_index, column_size)

MoveAdjustedTarget(c, b) ==
  LET same == c.source_column_index = c.target_column_index
      nominal == IF same /\ c.source_card_index < c.target_card_index
                   THEN SaturatingDec(c.target_card_index)
                   ELSE c.target_card_index
      column_size == IF BoardColumn(b, c.target_column_index) = <<>>
                       THEN 0
                       ELSE Len(BoardColumn(b, c.target_column_index)[1])
  IN  IF same THEN Min(nominal, column_size - 1)
              ELSE Min(nominal, column_size)

MoveExecute(c, b) ==
  IF c.executed THEN CO(c, b, Failure("Command already executed"))
  ELSE IF BoardCard(b, c.source_column_index, c.source_card_index) = <<>>
    THEN CO(c, b, Failure("Card not found at column {}, index {}"))
  ELSE LET card == BoardCard(b, c.source_column_index,
                             c.source_card_index)[1]
           adjusted == MoveAdjustedTarget(c, b)
           c1 == [c EXCEPT !.card = <<card>>,
                           !.actual_target_index = <<adjusted>>]
           r1 == BoardRemoveCard(b, c.source_column_index,
                                 c.source_card_index)
           r2 == BoardInsertCard(r1.board, c.target_column_index,
                                 adjusted, card)
       IN  CASE r1.st = "Err" -> CO(c1, b, ErrResult)
             [] r1.st = "Panic" -> CO(c1, b, PanicResult)
             [] r2.st = "Err" -> CO(c1, r1.board, ErrResult)
             [] r2.st = "Panic" -> CO(c1, r1.board, PanicResult)
             [] OTHER -> CO([c1 EXCEPT !.executed = TRUE], r2.board, Success)

\* undo removing the card at the nominal target index instead of the
\* recorded actual one.
MoveUndo_NominalTarget(c, b) ==
  IF ~c.executed THEN CO(c, b, Failure("Command was not executed"))
  ELSE IF c.card = <<>>
    THEN CO(c, b, Failure("Card data not available for undo"))
  ELSE IF c.actual_target_index = <<>>
    THEN CO(c, b, Failure("Actual target index not available for undo"))
  ELSE LET r1 == BoardRemoveCard(b, c.target_column_index,
                                 c.target_card_index)
           r2 == BoardInsertCard(r1.board, c.source_column_index,
                                 c.source_card_index, c.card[1])
       IN  CASE r1.st = "Err" -> CO(c, b, ErrResult)
             [] r1.st = "Panic" -> CO(c, b, PanicResult)
             [] r2.st = "Err" -> CO(c, r1.board, ErrResult)
             [] r2.st = "Panic" -> CO(c, r1.board, PanicResult)
             [] OTHER -> CO([c EXCEPT !.executed = FALSE], r2.board, Success)

MoveUndo(c, b) ==
  IF ~c.executed THEN CO(c, b, Failure("Command was not executed"))
  ELSE IF c.card = <<>>
    THEN CO(c, b, Failure("Card data not available for undo"))
  ELSE IF c.actual_target_index = <<>>
    THEN CO(c, b, Failure("Actual target index not available for undo"))
  ELSE LET r1 == BoardRemoveCard(b, c.target_column_index,
                                 c.actual_target_index[1])
           r2 == BoardInsertCard(r1.board, c.source_column_index,
                                 c.source_card_index, c.card[1])
       IN  CASE r1.st = "Err" -> CO(c, b, ErrResult)
             [] r1.st = "Panic" -> CO(c, b, PanicResult)
             [] r2.st = "Err" -> CO(c, r1.board, ErrResult)
             [] r2.st = "Panic" -> CO(c, r1.board, PanicResult)
             [] OTHER -> CO([c EXCEPT !.executed = FALSE], r2.board, Success)

\* -------------------------------------------------------- MarkCardCommand
MarkCardCommand(column_index, card_index, mark_done) ==
  [variant |-> "MarkCard", column_index |-> column_index,
   card_index |-> card_index, mark_done |-> mark_done,
   original_column_index |-> <<>>, original_card_index |-> <<>>,
   executed |-> FALSE]

\* execute without the test that the card has moved: a mark refused by
\* the board at a column boundary is reported as done.
MarkExecute_NoBoundaryCheck(c, b) ==
  IF check_already_executed(c.executed) # <<>>
    THEN CO(c, b, check_already_executed(c.executed)[1])
  ELSE IF validate_card_exists(b, c.column_index, c.card_index).kind
            = "Failure"
    THEN CO(c, b, validate_card_exists(b, c.column_index, c.card_index))
  ELSE LET c1 == [c EXCEPT !.original_column_index = <<c.column_index>>,
                           !.original_card_index = <<c.card_index>>]
           r == IF c.mark_done
                  THEN BoardMarkCardDone(b, c.column_index, c.card_index)
                  ELSE BoardMarkCardUndone(b, c.column_index, c.card_index)
       IN  IF r.st = "Panic" THEN CO(c1, b, PanicResult)
           ELSE CO([c1 EXCEPT !.column_index = r.ret[1],
                              !.card_index = r.ret[2],
                              !.executed = TRUE],
                   r.board, Success)

MarkExecute(c, b) ==
  IF check_already_executed(c.executed) # <<>>
    THEN CO(c, b, check_already_executed(c.executed)[1])
  ELSE IF validate_card_exists(b, c.column_index, c.card_index).kind
            = "Failure"
    THEN CO(c, b, validate_card_exists(b, c.column_index, c.card_index))
  ELSE LET c1 == [c EXCEPT !.original_column_index = <<c.column_index>>,
                           !.original_card_index = <<c.card_index>>]
           r == IF c.mark_done
                  THEN BoardMarkCardDone(b, c.column_index, c.card_index)
                  ELSE BoardMarkCardUndone(b, c.column_index, c.card_index)
       IN  IF r.st = "Panic" THEN CO(c1, b, PanicResult)
           ELSE IF r.ret[1] = c.column_index /\ r.ret[2] = c.card_index
             THEN CO(c1, r.board,
                     Failure("Cannot mark card done/undone at column boundary"))
           ELSE CO([c1 EXCEPT !.column_index = r.ret[1],
                              !.card_index = r.ret[2],
                              !.executed = TRUE],
                   r.board, Success)

MarkUndo(c, b) ==
  IF check_not_executed(c.executed) # <<>>
    THEN CO(c, b, check_not_executed(c.executed)[1])
  ELSE IF c.original_column_index = <<>>
    THEN CO(c, b, Failure("Original column index not available for undo"))
  ELSE IF c.original_card_index = <<>>
    THEN CO(c, b, Failure("Original card index not available for undo"))
  ELSE IF validate_card_exists_for_undo(b, c.column_index,
                                        c.card_index).kind = "Failure"
    THEN CO(c, b, validate_card_exists_for_undo(b, c.column_index,
                                                c.card_index))
  ELSE LET r == IF c.mark_done
                  THEN BoardMarkCardUndone(b, c.column_index, c.card_index)
                  ELSE BoardMarkCardDone(b, c.column_index, c.card_index)
       IN  IF r.st = "Panic" THEN CO(c, b, PanicResult)
           ELSE IF r.ret[1] # c.original_column_index[1]
                   \/ r.ret[2] # c.original_card_index[1]
             THEN CO(c, r.board,
                     Failure("Failed to undo mark card operation"))
           ELSE CO([c EXCEPT !.column_index = c.original_column_index[1],
                             !.card_index = c.original_card_index[1],
                             !.executed = FALSE],
                   r.board, Success)

\* ---------------------------------------------------------- trait Command
\* Dynamic dispatch of Command::execute / Command::undo over the variants.
Execute(c, b) ==
  CASE c.variant = "Insert" -> InsertExecute(c, b)
    [] c.variant = "Remove" -> RemoveExecute(c, b)
    [] c.variant = "Update" -> UpdateExecute(c, b)
    [] c.variant = "ChangePriority" -> ChangePriorityExecute(c, b)
    [] c.variant = "MoveCard" -> MoveExecute(c, b)
    [] c.variant = "MarkCard" -> MarkExecute(c, b)

Undo(c, b) ==
  CASE c.variant = "Insert" -> InsertUndo(c, b)
    [] c.variant = "Remove" -> RemoveUndo(c, b)
    [] c.variant = "Update" -> UpdateUndo(c, b)
    [] c.variant = "ChangePriority" -> ChangePriorityUndo(c, b)
    [] c.variant = "MoveCard" -> MoveUndo(c, b)
    [] c.variant = "MarkCard" -> MarkUndo(c, b)

description(c) ==
  CASE c.variant = "Insert" -> "Insert card"
    [] c.variant = "Remove" -> "Remove card"
    [] c.variant = "Update" -> "Update card"
    [] c.variant = "ChangePriority" ->
         IF c.increase THEN "Increase priority" ELSE "Decrease priority"
    [] c.variant = "MoveCard" -> "Move card"
    [] c.variant = "MarkCard" ->
         IF c.mark_done THEN "Mark card done" ELSE "Mark card undone"

\* --------------------------------------------------------- CommandHistory
\* Outcome of a CommandHistory call: both stacks afterwards (front of the
\* VecDeque first, back last), the board afterwards and the result.
HO(undo, redo, b, result) ==
  [undo_stack |-> undo, redo_stack |-> redo, board |-> b, result |-> result]

\* VecDeque::pop_front(): nothing happens on an empty deque
PopFront(stack) == IF stack = <<>> THEN stack ELSE Tail(stack)

\* push_back without the eviction of the oldest command.
PushBounded_NoEviction(stack, max, c) == stack \o <<c>>

\* if len >= max_history { pop_front(); }  push_back(command);
PushBounded(stack, max, c) ==
  (IF Len(stack) >= max THEN PopFront(stack) ELSE stack) \o <<c>>

\* pop_back()
Back(stack) == stack[Len(stack)]

PopBack(stack) == SubSeq(stack, 1, Len(stack) - 1)

\* execute_command without its redo_stack.clear(): the stack it was given
\* survives the call.
AfterExecuteCommand_KeepRedo(undo, redo, max, o) ==
  IF IsSuccess(o.result)
    THEN HO(PushBounded(undo, max, o.cmd), redo, o.board, o.result)
    ELSE HO(undo, redo, o.board, o.result)

\* The part of execute_command after `command.execute(board)`, o being
\* that call's outcome: `?` returns an Err (and drops the command) before
\* anything is pushed; redo_stack.clear() has come first.
AfterExecuteCommand(undo, redo, max, o) ==
  IF IsSuccess(o.result)
    THEN HO(PushBounded(undo, max, o.cmd), <<>>, o.board, o.result)
    ELSE HO(undo, <<>>, o.board, o.result)

HistoryExecuteCommand(undo, redo, max, command, b) ==
  AfterExecuteCommand(undo, redo, max, Execute(command, b))

\* undo moving the command to the redo stack whatever its undo returned.
AfterUndo_AlwaysToRedo(undo, redo, o) ==
  CASE o.result.kind \in {"Success", "Failure"} ->
         HO(PopBack(undo), redo \o <<o.cmd>>, o.board, o.result)
    [] OTHER -> HO(PopBack(undo), redo, o.board, o.result)

\* undo without its `else` branch: a command whose undo failed is dropped.
AfterUndo_DropFailed(undo, redo, o) ==
  IF IsSuccess(o.result)
    THEN HO(PopBack(undo), redo \o <<o.cmd>>, o.board, o.result)
    ELSE HO(PopBack(undo), redo, o.board, o.result)

\* The part of undo after `command.undo(board)` on the popped command.
AfterUndo(undo, redo, o) ==
  CASE IsSuccess(o.result) ->
         HO(PopBack(undo), redo \o <<o.cmd>>, o.board, o.result)
    [] o.result.kind = "Failure" ->
         HO(PopBack(undo) \o <<o.cmd>>, redo, o.board, o.result)
    [] OTHER -> HO(PopBack(undo), redo, o.board, o.result)

\* undo answering an empty stack with an Err instead of a Failure.
HistoryUndo_ErrOnEmpty(undo, redo, max, b) ==
  IF undo = <<>>
    THEN HO(undo, redo, b, ErrResult)
    ELSE AfterUndo(undo, redo, Undo(Back(undo), b))

HistoryUndo(undo, redo, max, b) ==
  IF undo = <<>>
    THEN HO(undo, redo, b, Failure("Nothing to undo"))
    ELSE AfterUndo(undo, redo, Undo(Back(undo), b))

\* The part of redo after `command.execute(board)` on the popped command.
AfterRedo(undo, redo, max, o) ==
  CASE IsSuccess(o.result) ->
         HO(PushBounded(undo, max, o.cmd), PopBack(redo), o.board, o.result)
    [] o.result.kind = "Failure" ->
         HO(undo, PopBack(redo) \o <<o.cmd>>, o.board, o.result)
    [] OTHER -> HO(undo, PopBack(redo), o.board, o.result)

HistoryRedo(undo, redo, max, b) ==
  IF redo = <<>>
    THEN HO(undo, redo, b, Failure("Nothing to redo"))
    ELSE AfterRedo(undo, redo, max, Execute(Back(redo), b))

\* last_undo_description reading the front of the deque, the oldest
\* command, where the source reads the back.
last_undo_description_Front(undo) ==
  IF undo = <<>> THEN <<>> ELSE <<description(Head(undo))>>

\* self.undo_stack.back().map(|cmd| cmd.description())
last_undo_description(undo) ==
  IF undo = <<>> THEN <<>> ELSE <<description(Back(undo))>>

last_redo_description(redo) ==
  IF redo = <<>> THEN <<>> ELSE <<description(Back(redo))>>

can_undo(undo) == undo # <<>>

can_redo(redo) == redo # <<>>

undo_count(undo) == Len(undo)

redo_count(redo) == Len(redo)

\* ------------------------------------------------------------ CardSelector
\* The selector's own fields; the board it shares is passed to each call.
CardSelectorNew ==
  [selected_column |-> 0, selected_card |-> 0, selection_enabled |-> FALSE]

\* get_card_index without the min against the column's size.
get_card_index_Unclamped(sel, b, index) ==
  IF BoardColumn(b, sel.selected_column) = <<>> THEN 0
  ELSE IF Len(BoardColumn(b, sel.selected_column)[1]) = 0 THEN 0
  ELSE index

\* usize::saturating_sub(1) is SaturatingDec.
get_card_index(sel, b, index) ==
  IF BoardColumn(b, sel.selected_column) = <<>> THEN 0
  ELSE IF Len(BoardColumn(b, sel.selected_column)[1]) = 0 THEN 0
  ELSE Min(index,
           SaturatingDec(Len(BoardColumn(b, sel.selected_column)[1])))

next_card_index(sel, b) == get_card_index(sel, b, sel.selected_card + 1)

prev_card_index(sel, b) ==
  IF sel.selected_card = 0 THEN 0
  ELSE get_card_index(sel, b, sel.selected_card - 1)

\* On a board without columns `columns_count() - 1` underflows: a build
\* with overflow checks panics there (the callers' actions take that
\* outcome), a build without them wraps to usize::MAX and the min is its
\* other argument.
next_column_index(b, current_index) ==
  IF columns_count(b) = 0 THEN current_index + 1
  ELSE Min(current_index + 1, columns_count(b) - 1)

prev_column_index(b, current_index) ==
  IF current_index = 0 THEN 0
  ELSE IF columns_count(b) = 0 THEN current_index - 1
  ELSE Min(current_index - 1, columns_count(b) - 1)

\* select running update_selection whether or not selection is enabled.
SelectorSelect_AlwaysMoves(sel, moved) ==
  [moved EXCEPT !.selection_enabled = TRUE]

\* select(update_selection): moved is the selector update_selection would
\* leave.  The call returns the cursor of the selector it leaves.
SelectorSelect(sel, moved) ==
  IF sel.selection_enabled THEN moved
  ELSE [sel EXCEPT !.selection_enabled = TRUE]

Cursor(sel) == <<sel.selected_column, sel.selected_card>>

\* Option<(usize, usize)>
SelectorGet(sel) == IF sel.selection_enabled THEN <<Cursor(sel)>> ELSE <<>>

SelectorSet(sel, b, column_index, card_index) ==
  LET col == Min(column_index, SaturatingDec(columns_count(b)))
      at == [sel EXCEPT !.selected_column = col]
  IN  [at EXCEPT !.selected_card = get_card_index(at, b, card_index)]

\* Option<Card>
SelectorGetSelectedCard(sel, b) ==
  IF sel.selection_enabled
     /\ BoardColumn(b, sel.selected_column) # <<>>
     /\ Len(BoardColumn(b, sel.selected_column)[1]) > 0
    THEN BoardCard(b, sel.selected_column, sel.selected_card)
    ELSE <<>>

SelectorSelectNextColumn(sel, b) ==
  LET at == [sel EXCEPT
               !.selected_column = next_column_index(b, sel.selected_column)]
  IN  SelectorSelect(sel,
        [at EXCEPT !.selected_card = get_card_index(at, b, sel.selected_card)])

SelectorSelectPrevColumn(sel, b) ==
  LET at == [sel EXCEPT
               !.selected_column = prev_column_index(b, sel.selected_column)]
  IN  SelectorSelect(sel,
        [at EXCEPT !.selected_card = get_card_index(at, b, sel.selected_card)])

SelectorSelectNextCard(sel, b) ==
  SelectorSelect(sel, [sel EXCEPT !.selected_card = next_card_index(sel, b)])

SelectorSelectPrevCard(sel, b) ==
  SelectorSelect(sel, [sel EXCEPT !.selected_card = prev_card_index(sel, b)])

\* disable_selection that also sends the cursor back to where a new
\* selector has it.
SelectorDisableSelection_ResetsCursor(sel) == CardSelectorNew

SelectorDisableSelection(sel) == [sel EXCEPT !.selection_enabled = FALSE]

\* -------------------------------------------------------------------- App
\* The engine is a record [board, selector, undo_stack, redo_stack,
\* panicked]: the board, the selector, the command history's stacks, and
\* whether a call made on the way panicked.  What an action handed to
\* with_selected_card returns is a record [app, at]: the engine afterwards
\* and the (column, card) pair for the selector.

\* CommandHistory::new()
MAX_UNDO_HISTORY == 50

\* result.unwrap_or_else(|e| log(e)) / if let Err(e) = result { log(e) }:
\* the board keeps what the call did, an Err is only logged.
Logged(a, out) ==
  [a EXCEPT !.board = IF out.st = "Ok" THEN out.board ELSE @,
            !.panicked = @ \/ out.st = "Panic"]

\* The engine after a CommandHistory call with outcome o, and the result.
AppWithHistory(a, o) ==
  [app |-> [a EXCEPT !.board = o.board,
                     !.undo_stack = o.undo_stack,
                     !.redo_stack = o.redo_stack,
                     !.panicked = @ \/ o.result.kind = "Panic"],
   result |-> o.result]

\* App::execute_command: runs the command through the history on the
\* engine's board.
AppExecuteCommand(a, command) ==
  AppWithHistory(a, HistoryExecuteCommand(a.undo_stack, a.redo_stack,
                                          MAX_UNDO_HISTORY, command, a.board))

\* with_selected_card running the action on the selector's coordinates
\* whether or not the selection is enabled.
with_selected_card_Unguarded(a, r) ==
  [r.app EXCEPT !.selector =
     SelectorSet(r.app.selector, r.app.board, r.at[1], r.at[2])]

\* r is what the action returns when called on the engine and the
\* selector's cursor.
with_selected_card(a, r) ==
  IF SelectorGet(a.selector) = <<>> THEN a
  ELSE [r.app EXCEPT !.selector =
          SelectorSet(r.app.selector, r.app.board, r.at[1], r.at[2])]

\* if let Some((column, card)) = selector.get() { deselect_card(..) }
DeselectAtCursor(a) ==
  IF SelectorGet(a.selector) = <<>> THEN a
  ELSE Logged(a, BoardDeselectCard(a.board, a.selector.selected_column,
                                   a.selector.selected_card))

\* sel is the selector after the navigation call the action makes; the
\* call reads the sizes of the columns only, which deselecting leaves.
card_selection(a, sel) ==
  Logged([DeselectAtCursor(a) EXCEPT !.selector = sel],
         BoardSelectCard(DeselectAtCursor(a).board, sel.selected_column,
                         sel.selected_card))

\* board.column(i).map(|c| c.size()).unwrap_or(0)
ColumnSizeOr0(b, column_index) ==
  IF BoardColumn(b, column_index) = <<>> THEN 0
  ELSE Len(BoardColumn(b, column_index)[1])

\* insert_card after execute_command returned x.
InsertCardSelect(x, column_index, card_index, insert_index) ==
  IF IsSuccess(x.result)
    THEN [app |-> Logged(x.app, BoardSelectCard(x.app.board, column_index,
                                                insert_index)),
          at |-> <<column_index, insert_index>>]
    ELSE [app |-> x.app, at |-> <<column_index, card_index>>]

\* remove_card after execute_command returned x.
RemoveCardSelect(x, column_index, card_index) ==
  LET new_column_size == ColumnSizeOr0(x.app.board, column_index)
      new_card_index == IF new_column_size > 0
                          THEN Min(card_index, new_column_size - 1)
                          ELSE 0
  IN  CASE ~IsSuccess(x.result) ->
             [app |-> x.app, at |-> <<column_index, card_index>>]
        [] new_column_size > 0 ->
             [app |-> Logged(x.app, BoardSelectCard(x.app.board,
                                      column_index, new_card_index)),
              at |-> <<column_index, new_card_index>>]
        [] OTHER -> [app |-> x.app, at |-> <<column_index, new_card_index>>]

\* (0..col.size()).find(|&i| col.card(i).map(|c| c.is_selected())
\*                                      .unwrap_or(false))
FindSelected(cards) ==
  LET flagged == {i \in 0..(Len(cards) - 1) : cards[i + 1].is_selected}
  IN  IF flagged = {} THEN <<>>
      ELSE <<CHOOSE i \in flagged : \A j \in flagged : i <= j>>

\* A priority change or a mark after execute_command returned x: on
\* success the flagged card is looked for in column scan[1] (scan = <<>>
\* at the board's edge) and selected where it was found when that is not
\* (column_index, card_index).
Reselect(x, column_index, card_index, scan) ==
  LET found == IF scan = <<>> THEN <<>>
               ELSE FindSelected(x.app.board[scan[1] + 1])
      new == IF found = <<>> THEN <<column_index, card_index>>
             ELSE <<scan[1], found[1]>>
  IN  IF IsSuccess(x.result) /\ new # <<column_index, card_index>>
        THEN [app |-> Logged(x.app, BoardSelectCard(x.app.board, new[1],
                                                    new[2])),
              at |-> new]
        ELSE [app |-> x.app, at |-> <<column_index, card_index>>]

\* The resynchronisation after an undo or redo that succeeded: the
\* selector is set to the first flagged card met scanning outward from its
\* column, from distance d on, the lower column first; with no flagged
\* card it is set to its own cursor, which clamps it to the board.  The
\* board's flags are not touched.
RECURSIVE Resync(_, _)
Resync(a, d) ==
  LET from == a.selector.selected_column
      at(c) == IF c >= 0 /\ c < columns_count(a.board)
                 THEN FindSelected(a.board[c + 1]) ELSE <<>>
      to(c, i) == [a EXCEPT !.selector = SelectorSet(a.selector, a.board, c, i)]
  IN  CASE d > columns_count(a.board) -> to(from, a.selector.selected_card)
        [] at(from - d) # <<>> -> to(from - d, at(from - d)[1])
        [] at(from + d) # <<>> -> to(from + d, at(from + d)[1])
        [] OTHER -> Resync(a, d + 1)

\* ------------------------------------------------------------------ state
VARIABLES
  board,        \* the Board
  cmd,          \* Option: the command instance the last call was given
  undo_stack,   \* CommandHistory.undo_stack
  redo_stack,   \* CommandHistory.redo_stack
  max_history,  \* CommandHistory.max_history
  result,       \* what the last call returned
  lastop,       \* which call that was
  panicked,     \* the process has panicked
  before,       \* Option: the board as it was before cmd's execute
  board0,       \* Option: the board the history started from
  execs,        \* successful execute_command calls made so far
  undos,        \* CommandHistory.undo calls made after them
  selector,     \* the CardSelector's fields
  state         \* AppState.state: "Normal", "Save", "Edit", "Help", "Quit"

vars == <<board, cmd, undo_stack, redo_stack, max_history, result, lastop,
          panicked, before, board0, execs, undos, selector, state>>

NoResult == [kind |-> "None", msg |-> ""]

\* ----------------------------------------------------------------- inputs
\* Boards without selection flags: k columns, at most n cards.
ColumnContents(n) == UNION {[1..m -> Descs] : m \in 0..n}

PlainBoards(k, n) ==
  {d \in [1..k -> ColumnContents(n)] :
     CardCount(d) <= n}

Positions(d) ==
  {<<c, i>> : c \in 1..Len(d), i \in 1..MaxCards + 1} \cap
  {p \in (1..Len(d)) \X (1..MaxCards + 1) : p[2] <= Len(d[p[1]])}

\* The board with contents d whose card at position p (if any) is selected.
MkBoard(d, p) ==
  [c \in 1..Len(d) |->
     [i \in 1..Len(d[c]) |->
        [short_description |-> d[c][i], is_selected |-> (<<c, i>> = p)]]]

\* Boards with at most one selected card.
Boards(k, n) ==
  UNION {{MkBoard(d, p) : p \in Positions(d) \cup {<<0, 0>>}} :
           d \in PlainBoards(k, n)}

\* Addresses handed to command constructors: every column of the board and
\* one that does not exist, every card index up to MaxIdx.
ColArgs(b) == 0..Len(b)

IdxArgs(n) == 0..n

CardArgs == {Card(d) : d \in Descs}

FreshCommands(b, n) ==
  {InsertCardCommand(c, i, k) : c \in ColArgs(b), i \in IdxArgs(n),
                                                  k \in CardArgs}
  \cup {RemoveCardCommand(c, i) : c \in ColArgs(b), i \in IdxArgs(n)}
  \cup {UpdateCardCommand(c, i, k) : c \in ColArgs(b), i \in IdxArgs(n),
                                                       k \in CardArgs}
  \cup {ChangePriorityCommand(c, i, inc) :
          c \in ColArgs(b), i \in IdxArgs(n), inc \in BOOLEAN}
  \cup {MoveCardCommand(c, i, tc, ti) :
          c \in ColArgs(b), i \in IdxArgs(n),
          tc \in ColArgs(b), ti \in IdxArgs(n)}
  \cup {MarkCardCommand(c, i, done) :
          c \in ColArgs(b), i \in IdxArgs(n), done \in BOOLEAN}

\* Commands handed to the CommandHistory: every variant, with outcomes of
\* every kind (Success, Failure, Err).  All address the first column, and
\* Insert and MoveCard also a column that does not exist; MarkCard takes
\* card indices up to n, in both directions (mark_undone is refused there,
\* at the column boundary).
HistoryCommands(b, n) ==
  {InsertCardCommand(c, 0, Card(1)) : c \in {0, Len(b)}}
  \cup {RemoveCardCommand(0, 0)}
  \cup {UpdateCardCommand(0, 0, Card(NumDescs))}
  \cup {ChangePriorityCommand(0, 0, inc) : inc \in BOOLEAN}
  \cup {MoveCardCommand(0, 0, tc, 0) : tc \in {Len(b) - 1, Len(b)}}
  \cup {MarkCardCommand(0, i, done) : i \in IdxArgs(n), done \in BOOLEAN}

\* -------------------------------------------- a caller driving one command
Init ==
  /\ board \in UNION {Boards(k, MaxCards) : k \in ColCounts}
  /\ cmd = <<>>
  /\ undo_stack = <<>>
  /\ redo_stack = <<>>
  /\ max_history = 0
  /\ result = NoResult
  /\ lastop = "init"
  /\ panicked = FALSE
  /\ before = <<>>
  /\ board0 = <<>>
  /\ execs = 0
  /\ undos = 0
  /\ selector = CardSelectorNew
  /\ state = "Normal"

HistoryUnchanged == UNCHANGED <<undo_stack, redo_stack, max_history,
                                board0, execs, undos, selector, state>>

\* XxxCommand::new / increase / decrease / mark_done / mark_undone
NewCommand ==
  /\ ~panicked
  /\ cmd = <<>>
  /\ \E c \in FreshCommands(board, MaxIdx) : cmd' = <<c>>
  /\ result' = NoResult
  /\ lastop' = "new"
  /\ before' = <<>>
  /\ UNCHANGED <<board, panicked>>
  /\ HistoryUnchanged

\* command.execute(&mut board)
CmdExecute ==
  /\ ~panicked
  /\ cmd # <<>>
  /\ cmd[1].variant = "Insert" => CardCount(board) < MaxCards
  /\ \E o \in {Execute(cmd[1], board)} :
         /\ cmd' = <<o.cmd>>
         /\ board' = o.board
         /\ result' = o.result
         /\ panicked' = (o.result.kind = "Panic")
         /\ before' = IF IsSuccess(o.result) THEN <<board>> ELSE <<>>
  /\ lastop' = "execute"
  /\ HistoryUnchanged

\* command.undo(&mut board)
CmdUndo ==
  /\ ~panicked
  /\ cmd # <<>>
  /\ \E o \in {Undo(cmd[1], board)} :
         /\ cmd' = <<o.cmd>>
         /\ board' = o.board
         /\ result' = o.result
         /\ panicked' = (o.result.kind = "Panic")
  /\ before' = IF lastop = "execute" THEN before ELSE <<>>
  /\ lastop' = "undo"
  /\ HistoryUnchanged

Next == NewCommand \/ CmdExecute \/ CmdUndo

Spec == Init /\ [][Next]_vars

\* ------------------------------------------- a caller driving the history
\* The boards a history starts on: k columns holding at most n cards in
\* all, every card different from the others (numbered in reading order)
\* and none selected.  No command compares card contents, so different
\* cards are the inputs on which a misplaced card shows.
RECURSIVE NumberedColumns(_, _, _)
NumberedColumns(k, n, from) ==
  IF k = 0 THEN {<<>>}
  ELSE UNION {{<<[i \in 1..m |-> from + i - 1]>> \o rest :
                 rest \in NumberedColumns(k - 1, n - m, from + m)} :
              m \in 0..n}

HistoryBoards(k, n) == {MkBoard(d, <<0, 0>>) : d \in NumberedColumns(k, n, 1)}

\* CommandHistory::with_max_history(max_history) over a board.  board0, execs
\* and undos follow the run while it has the shape "n successful
\* execute_command calls, then only undo calls"; board0 = <<>> once the run
\* left that shape.  before follows an undo/redo cycle: <<b1>> right after
\* a successful execute_command that left board b1, <<b1, b2>> once the
\* undo that followed it succeeded and left b2, and for as long as redo and
\* undo calls then alternate; <<>> otherwise.
InitHist ==
  /\ board \in UNION {HistoryBoards(k, HMaxCards) : k \in HColCounts}
  /\ cmd = <<>>
  /\ undo_stack = <<>>
  /\ redo_stack = <<>>
  /\ max_history \in 0..MaxCap
  /\ result = NoResult
  /\ lastop = "init"
  /\ panicked = FALSE
  /\ before = <<>>
  /\ board0 = <<board>>
  /\ execs = 0
  /\ undos = 0
  /\ selector = CardSelectorNew
  /\ state = "Normal"

Tracked == board0 # <<>>

Untrack ==
  /\ board0' = <<>>
  /\ execs' = 0
  /\ undos' = 0

\* history.execute_command(Box::new(command), &mut board)
HExecuteCommand ==
  /\ ~panicked
  /\ \E c \in HistoryCommands(board, HMaxIdx) :
       /\ c.variant = "Insert" => CardCount(board) < HMaxCards
       /\ \E e \in {Execute(c, board)} :
          \E o \in {AfterExecuteCommand(undo_stack, redo_stack,
                                        max_history, e)} :
              /\ cmd' = <<e.cmd>>
              /\ undo_stack' = o.undo_stack
              /\ redo_stack' = o.redo_stack
              /\ board' = o.board
              /\ result' = o.result
              /\ panicked' = (o.result.kind = "Panic")
              /\ IF Tracked /\ undos = 0 /\ IsSuccess(o.result)
                    /\ execs <= max_history
                   THEN /\ execs' = execs + 1
                        /\ UNCHANGED <<board0, undos>>
                   ELSE Untrack
              /\ before' = IF IsSuccess(o.result) THEN <<o.board>> ELSE <<>>
  /\ lastop' = "h_execute"
  /\ UNCHANGED <<max_history, selector, state>>

\* history.undo(&mut board)
HUndo ==
  /\ ~panicked
  /\ \E o \in {HistoryUndo(undo_stack, redo_stack, max_history, board)} :
         /\ undo_stack' = o.undo_stack
         /\ redo_stack' = o.redo_stack
         /\ board' = o.board
         /\ result' = o.result
         /\ panicked' = (o.result.kind = "Panic")
         /\ before' =
              IF lastop = "h_execute" /\ Len(before) = 1
                 /\ IsSuccess(o.result)
                THEN <<before[1], o.board>>
              ELSE IF lastop = "h_redo" /\ Len(before) = 2 THEN before
              ELSE <<>>
  /\ IF Tracked /\ execs > 0 /\ undos < execs
       THEN /\ undos' = undos + 1
            /\ UNCHANGED <<board0, execs>>
       ELSE Untrack
  /\ lastop' = "h_undo"
  /\ cmd' = <<>>
  /\ UNCHANGED <<max_history, selector, state>>

\* history.redo(&mut board)
HRedo ==
  /\ ~panicked
  /\ \E o \in {HistoryRedo(undo_stack, redo_stack, max_history, board)} :
         /\ undo_stack' = o.undo_stack
         /\ redo_stack' = o.redo_stack
         /\ board' = o.board
         /\ result' = o.result
         /\ panicked' = (o.result.kind = "Panic")
  /\ before' = IF lastop = "h_undo" /\ Len(before) = 2 THEN before ELSE <<>>
  /\ Untrack
  /\ lastop' = "h_redo"
  /\ cmd' = <<>>
  /\ UNCHANGED <<max_history, selector, state>>

NextHist == HExecuteCommand \/ HUndo \/ HRedo

SpecHist == InitHist /\ [][NextHist]_vars

\* A CommandHistory that keeps one command more than the largest capacity
\* of InitHist, so that both stacks hold several commands at once.
InitDeepHist ==
  /\ board \in UNION {HistoryBoards(k, HMaxCards) : k \in HColCounts}
  /\ cmd = <<>>
  /\ undo_stack = <<>>
  /\ redo_stack = <<>>
  /\ max_history = MaxCap + 1
  /\ result = NoResult
  /\ lastop = "init"
  /\ panicked = FALSE
  /\ before = <<>>
  /\ board0 = <<board>>
  /\ execs = 0
  /\ undos = 0
  /\ selector = CardSelectorNew
  /\ state = "Normal"

SpecDeepHist == InitDeepHist /\ [][NextHist]_vars

\* A caller that keeps calling undo: an undo call that would change
\* anything is eventually made.  The caller's commands are those whose
\* card field is an Option or absent, which keeps every two states of a
\* behaviour comparable field by field.
SpecDrain ==
  /\ InitHist
  /\ [][\/ HExecuteCommand /\ cmd'[1].variant # "Insert"
        \/ HUndo
        \/ HRedo]_vars
  /\ WF_vars(HUndo)

\* --------------------------------------- a caller driving a CardSelector
\* CardSelector::new over a board that has a column; the board stays as it
\* is while the selector's methods are called.
InitSel ==
  /\ board \in UNION {Boards(k, MaxCards) : k \in ColCounts}
  /\ cmd = <<>>
  /\ undo_stack = <<>>
  /\ redo_stack = <<>>
  /\ max_history = 0
  /\ result = NoResult
  /\ lastop = "init"
  /\ panicked = FALSE
  /\ before = <<>>
  /\ board0 = <<>>
  /\ execs = 0
  /\ undos = 0
  /\ selector = CardSelectorNew
  /\ state = "Normal"

\* What a selector call returned.
Returned(v) == [kind |-> "Returned", msg |-> v]

SelectorFrame ==
  UNCHANGED <<board, cmd, undo_stack, redo_stack, max_history, panicked,
              before, board0, execs, undos, state>>

\* A navigation call: it leaves the selector sel and returns its cursor.
Navigate(op, sel) ==
  /\ selector' = sel
  /\ result' = Returned(Cursor(sel))
  /\ lastop' = op
  /\ SelectorFrame

SelSelectNextColumn ==
  Navigate("select_next_column", SelectorSelectNextColumn(selector, board))

SelSelectPrevColumn ==
  Navigate("select_prev_column", SelectorSelectPrevColumn(selector, board))

SelSelectNextCard ==
  Navigate("select_next_card", SelectorSelectNextCard(selector, board))

SelSelectPrevCard ==
  Navigate("select_prev_card", SelectorSelectPrevCard(selector, board))

SelSet ==
  \E column_index \in ColArgs(board), card_index \in IdxArgs(MaxIdx) :
    /\ selector' = SelectorSet(selector, board, column_index, card_index)
    /\ result' = NoResult
    /\ lastop' = "set"
    /\ SelectorFrame

SelGet ==
  /\ result' = Returned(SelectorGet(selector))
  /\ lastop' = "get"
  /\ UNCHANGED selector
  /\ SelectorFrame

SelDisableSelection ==
  /\ selector' = SelectorDisableSelection(selector)
  /\ result' = NoResult
  /\ lastop' = "disable_selection"
  /\ SelectorFrame

NextSel ==
  \/ SelSelectNextColumn
  \/ SelSelectPrevColumn
  \/ SelSelectNextCard
  \/ SelSelectPrevCard
  \/ SelSet
  \/ SelGet
  \/ SelDisableSelection

SpecSel == InitSel /\ [][NextSel]_vars

\* ------------------------------------- a caller invoking a Board primitive
\* One call on a board as loaded or left by the engine.  cmd holds the
\* arguments of the call, result its status ("Ok", "Err" or "Panic") and
\* the value it returned, before the board the call was made on.
\* Board::insert_card(column_index, card_index, card)
BInsertCard ==
  /\ lastop = "init"
  /\ \E c \in ColArgs(board), i \in IdxArgs(MaxIdx), k \in CardArgs :
     \E out \in {BoardInsertCard(board, c, i, k)} :
       /\ board' = out.board
       /\ result' = [kind |-> out.st, msg |-> out.ret]
       /\ cmd' = <<[column_index |-> c, card_index |-> i, card |-> k]>>
       /\ lastop' = "insert_card"
       /\ panicked' = (out.st = "Panic")
       /\ before' = <<board>>
       /\ UNCHANGED <<undo_stack, redo_stack, max_history, board0, execs,
                      undos, selector, state>>

\* Board::remove_card(column_index, card_index)
BRemoveCard ==
  /\ lastop = "init"
  /\ \E c \in ColArgs(board), i \in IdxArgs(MaxIdx) :
     \E out \in {BoardRemoveCard(board, c, i)} :
       /\ board' = out.board
       /\ result' = [kind |-> out.st, msg |-> out.ret]
       /\ cmd' = <<[column_index |-> c, card_index |-> i]>>
       /\ lastop' = "remove_card"
       /\ panicked' = (out.st = "Panic")
       /\ before' = <<board>>
       /\ UNCHANGED <<undo_stack, redo_stack, max_history, board0, execs,
                      undos, selector, state>>

\* Board::select_card(column_index, card_index)
BSelectCard ==
  /\ lastop = "init"
  /\ \E c \in ColArgs(board), i \in IdxArgs(MaxIdx) :
     \E out \in {BoardSelectCard(board, c, i)} :
       /\ board' = out.board
       /\ result' = [kind |-> out.st, msg |-> out.ret]
       /\ cmd' = <<[column_index |-> c, card_index |-> i]>>
       /\ lastop' = "select_card"
       /\ panicked' = (out.st = "Panic")
       /\ before' = <<board>>
       /\ UNCHANGED <<undo_stack, redo_stack, max_history, board0, execs,
                      undos, selector, state>>

\* Board::deselect_card(column_index, card_index)
BDeselectCard ==
  /\ lastop = "init"
  /\ \E c \in ColArgs(board), i \in IdxArgs(MaxIdx) :
     \E out \in {BoardDeselectCard(board, c, i)} :
       /\ board' = out.board
       /\ result' = [kind |-> out.st, msg |-> out.ret]
       /\ cmd' = <<[column_index |-> c, card_index |-> i]>>
       /\ lastop' = "deselect_card"
       /\ panicked' = (out.st = "Panic")
       /\ before' = <<board>>
       /\ UNCHANGED <<undo_stack, redo_stack, max_history, board0, execs,
                      undos, selector, state>>

\* Board::update_card(column_index, card_index, card)
BUpdateCard ==
  /\ lastop = "init"
  /\ \E c \in ColArgs(board), i \in IdxArgs(MaxIdx), k \in CardArgs :
     \E out \in {BoardUpdateCard(board, c, i, k)} :
       /\ board' = out.board
       /\ result' = [kind |-> out.st, msg |-> out.ret]
       /\ cmd' = <<[column_index |-> c, card_index |-> i, card |-> k]>>
       /\ lastop' = "update_card"
       /\ panicked' = (out.st = "Panic")
       /\ before' = <<board>>
       /\ UNCHANGED <<undo_stack, redo_stack, max_history, board0, execs,
                      undos, selector, state>>

\* Board::increase_priority(column_index, card_index)
BIncreasePriority ==
  /\ lastop = "init"
  /\ \E c \in ColArgs(board), i \in IdxArgs(MaxIdx) :
     \E out \in {BoardIncreasePriority(board, c, i)} :
       /\ board' = out.board
       /\ result' = [kind |-> out.st, msg |-> out.ret]
       /\ cmd' = <<[column_index |-> c, card_index |-> i]>>
       /\ lastop' = "increase_priority"
       /\ panicked' = (out.st = "Panic")
       /\ before' = <<board>>
       /\ UNCHANGED <<undo_stack, redo_stack, max_history, board0, execs,
                      undos, selector, state>>

\* Board::decrease_priority(column_index, card_index)
BDecreasePriority ==
  /\ lastop = "init"
  /\ \E c \in ColArgs(board), i \in IdxArgs(MaxIdx) :
     \E out \in {BoardDecreasePriority(board, c, i)} :
       /\ board' = out.board
       /\ result' = [kind |-> out.st, msg |-> out.ret]
       /\ cmd' = <<[column_index |-> c, card_index |-> i]>>
       /\ lastop' = "decrease_priority"
       /\ panicked' = (out.st = "Panic")
       /\ before' = <<board>>
       /\ UNCHANGED <<undo_stack, redo_stack, max_history, board0, execs,
                      undos, selector, state>>

\* Board::mark_card_done(column_index, card_index)
BMarkCardDone ==
  /\ lastop = "init"
  /\ \E c \in ColArgs(board), i \in IdxArgs(MaxIdx) :
     \E out \in {BoardMarkCardDone(board, c, i)} :
       /\ board' = out.board
       /\ result' = [kind |-> out.st, msg |-> out.ret]
       /\ cmd' = <<[column_index |-> c, card_index |-> i]>>
       /\ lastop' = "mark_card_done"
       /\ panicked' = (out.st = "Panic")
       /\ before' = <<board>>
       /\ UNCHANGED <<undo_stack, redo_stack, max_history, board0, execs,
                      undos, selector, state>>

\* Board::mark_card_undone(column_index, card_index)
BMarkCardUndone ==
  /\ lastop = "init"
  /\ \E c \in ColArgs(board), i \in IdxArgs(MaxIdx) :
     \E out \in {BoardMarkCardUndone(board, c, i)} :
       /\ board' = out.board
       /\ result' = [kind |-> out.st, msg |-> out.ret]
       /\ cmd' = <<[column_index |-> c, card_index |-> i]>>
       /\ lastop' = "mark_card_undone"
       /\ panicked' = (out.st = "Panic")
       /\ before' = <<board>>
       /\ UNCHANGED <<undo_stack, redo_stack, max_history, board0, execs,
                      undos, selector, state>>

SpecBoard ==
  Init /\ [][BInsertCard
            \/ BRemoveCard
            \/ BSelectCard
            \/ BDeselectCard
            \/ BUpdateCard
            \/ BIncreasePriority
            \/ BDecreasePriority
            \/ BMarkCardDone
            \/ BMarkCardUndone]_vars

\* ------------------------------------------------- a user driving the App
\* The engine as the variables hold it.
App ==
  [board |-> board, selector |-> selector, undo_stack |-> undo_stack,
   redo_stack |-> redo_stack, panicked |-> panicked]

\* App::new over a board read from a file, which may list no column at
\* all: no card flagged (is_selected is not serialized), a new selector,
\* CommandHistory::new().
InitApp ==
  /\ board \in UNION {HistoryBoards(k, AppInitCards) : k \in {0} \cup HColCounts}
  /\ cmd = <<>>
  /\ undo_stack = <<>>
  /\ redo_stack = <<>>
  /\ max_history = MAX_UNDO_HISTORY
  /\ result = NoResult
  /\ lastop = "init"
  /\ panicked = FALSE
  /\ before = <<>>
  /\ board0 = <<>>
  /\ execs = 0
  /\ undos = 0
  /\ selector = CardSelectorNew
  /\ state = "Normal"

\* The engine after a call, written back to the variables.  The calls
\* that run a command are made while the undo stack has room in the model,
\* or while the selection is disabled.  state is the State the key
\* handler making the call returns: card_edition opens the editor on the
\* card insert_card returned, every other call ends in Normal.
AppStep(op, a, c, r) ==
  /\ board' = a.board
  /\ selector' = a.selector
  /\ undo_stack' = a.undo_stack
  /\ redo_stack' = a.redo_stack
  /\ panicked' = a.panicked
  /\ cmd' = c
  /\ result' = r
  /\ lastop' = op
  /\ state' = IF op = "insert_card"
                  /\ SelectorGetSelectedCard(a.selector, a.board) # <<>>
                THEN "Edit" ELSE "Normal"
  /\ UNCHANGED <<max_history, before, board0, execs, undos>>

\* On a board without columns next_column_index underflows once the
\* selection is enabled: the call panics or, wrapping, moves the cursor one
\* column further (as far as MaxIdx in the model).
UserSelectNextColumn ==
  /\ ~panicked
  /\ \/ /\ (selector.selection_enabled /\ columns_count(board) = 0)
             => selector.selected_column < MaxIdx
        /\ \E a \in {card_selection(App,
                       SelectorSelectNextColumn(selector, board))} :
             AppStep("select_next_column", a, <<>>, NoResult)
     \/ /\ selector.selection_enabled
        /\ columns_count(board) = 0
        /\ AppStep("select_next_column", [App EXCEPT !.panicked = TRUE],
                   <<>>, NoResult)

\* prev_column_index underflows the same way when the cursor is not in
\* column 0.
UserSelectPrevColumn ==
  /\ ~panicked
  /\ \/ \E a \in {card_selection(App,
                    SelectorSelectPrevColumn(selector, board))} :
          AppStep("select_prev_column", a, <<>>, NoResult)
     \/ /\ selector.selection_enabled
        /\ columns_count(board) = 0
        /\ selector.selected_column # 0
        /\ AppStep("select_prev_column", [App EXCEPT !.panicked = TRUE],
                   <<>>, NoResult)

UserSelectNextCard ==
  /\ ~panicked
  /\ \E a \in {card_selection(App, SelectorSelectNextCard(selector, board))} :
       AppStep("select_next_card", a, <<>>, NoResult)

UserSelectPrevCard ==
  /\ ~panicked
  /\ \E a \in {card_selection(App, SelectorSelectPrevCard(selector, board))} :
       AppStep("select_prev_card", a, <<>>, NoResult)

UserDisableSelection ==
  /\ ~panicked
  /\ \E a \in {[DeselectAtCursor(App) EXCEPT
                  !.selector = SelectorDisableSelection(selector)]} :
       AppStep("disable_selection", a, <<>>, NoResult)

\* insert_card(position): the card at the cursor is deselected, the index
\* computed from the column's size, and a Card::new("TODO", now), Card(0)
\* here, inserted by an InsertCardCommand.  cmd keeps the position asked
\* for.
UserInsertCard ==
  /\ ~panicked
  /\ \/ Len(undo_stack) < AppMaxDepth
     \/ ~selector.selection_enabled
     \/ Len(undo_stack) = AppMaxDepth /\ lastop = "undo" /\ ~IsSuccess(result)
  /\ CardCount(board) < AppMaxCards
  /\ \E position \in {"Current", "Next", "Top", "Bottom"} :
     \E column_size \in {ColumnSizeOr0(board, selector.selected_column)} :
     \E insert_index \in
          {CASE position = "Current" -> Min(selector.selected_card, column_size)
             [] position = "Next" -> Min(selector.selected_card + 1, column_size)
             [] position = "Top" -> 0
             [] OTHER -> column_size} :
     \E a \in {with_selected_card(App,
                 InsertCardSelect(
                   AppExecuteCommand(DeselectAtCursor(App),
                     InsertCardCommand(selector.selected_column, insert_index,
                                       Card(0))),
                   selector.selected_column, selector.selected_card,
                   insert_index))} :
       AppStep("insert_card", a, <<[position |-> position]>>, NoResult)

UserRemoveCard ==
  /\ ~panicked
  /\ \/ Len(undo_stack) < AppMaxDepth
     \/ ~selector.selection_enabled
     \/ Len(undo_stack) = AppMaxDepth /\ lastop = "undo" /\ ~IsSuccess(result)
  /\ \E a \in {with_selected_card(App,
                 RemoveCardSelect(
                   AppExecuteCommand(App,
                     RemoveCardCommand(selector.selected_column,
                                       selector.selected_card)),
                   selector.selected_column, selector.selected_card))} :
       AppStep("remove_card", a, <<>>, NoResult)

\* The editor: opened on get_selected_card(), it hands update_card a clone
\* of that card with the contents the user typed.  While the selection is
\* disabled no editor opens, and update_card is called with any card.
UserUpdateCard ==
  /\ ~panicked
  /\ \/ Len(undo_stack) < AppMaxDepth
     \/ ~selector.selection_enabled
     \/ Len(undo_stack) = AppMaxDepth /\ lastop = "undo" /\ ~IsSuccess(result)
  /\ \E card \in
          IF SelectorGetSelectedCard(selector, board) # <<>>
            THEN {[SelectorGetSelectedCard(selector, board)[1] EXCEPT
                     !.short_description = d] : d \in Descs}
          ELSE IF selector.selection_enabled THEN {} ELSE CardArgs :
     \E a \in {with_selected_card(App,
                 [app |-> AppExecuteCommand(App,
                            UpdateCardCommand(selector.selected_column,
                                              selector.selected_card,
                                              card)).app,
                  at |-> Cursor(selector)])} :
       AppStep("update_card", a, <<>>, NoResult)

UserIncreasePriority ==
  /\ ~panicked
  /\ \/ Len(undo_stack) < AppMaxDepth
     \/ ~selector.selection_enabled
     \/ Len(undo_stack) = AppMaxDepth /\ lastop = "undo" /\ ~IsSuccess(result)
  /\ \E a \in {with_selected_card(App,
                 Reselect(
                   AppExecuteCommand(App,
                     ChangePriorityCommand(selector.selected_column,
                                           selector.selected_card, TRUE)),
                   selector.selected_column, selector.selected_card,
                   <<selector.selected_column>>))} :
       AppStep("increase_priority", a, <<>>, NoResult)

UserDecreasePriority ==
  /\ ~panicked
  /\ \/ Len(undo_stack) < AppMaxDepth
     \/ ~selector.selection_enabled
     \/ Len(undo_stack) = AppMaxDepth /\ lastop = "undo" /\ ~IsSuccess(result)
  /\ \E a \in {with_selected_card(App,
                 Reselect(
                   AppExecuteCommand(App,
                     ChangePriorityCommand(selector.selected_column,
                                           selector.selected_card, FALSE)),
                   selector.selected_column, selector.selected_card,
                   <<selector.selected_column>>))} :
       AppStep("decrease_priority", a, <<>>, NoResult)

UserMarkCardDone ==
  /\ ~panicked
  /\ \/ Len(undo_stack) < AppMaxDepth
     \/ ~selector.selection_enabled
     \/ Len(undo_stack) = AppMaxDepth /\ lastop = "undo" /\ ~IsSuccess(result)
  /\ \E a \in {with_selected_card(App,
                 Reselect(
                   AppExecuteCommand(App,
                     MarkCardCommand(selector.selected_column,
                                     selector.selected_card, TRUE)),
                   selector.selected_column, selector.selected_card,
                   IF selector.selected_column + 1 < columns_count(board)
                     THEN <<selector.selected_column + 1>> ELSE <<>>))} :
       AppStep("mark_card_done", a, <<>>, NoResult)

UserMarkCardUndone ==
  /\ ~panicked
  /\ \/ Len(undo_stack) < AppMaxDepth
     \/ ~selector.selection_enabled
     \/ Len(undo_stack) = AppMaxDepth /\ lastop = "undo" /\ ~IsSuccess(result)
  /\ \E a \in {with_selected_card(App,
                 Reselect(
                   AppExecuteCommand(App,
                     MarkCardCommand(selector.selected_column,
                                     selector.selected_card, FALSE)),
                   selector.selected_column, selector.selected_card,
                   IF selector.selected_column > 0
                     THEN <<selector.selected_column - 1>> ELSE <<>>))} :
       AppStep("mark_card_undone", a, <<>>, NoResult)

\* The undo key, App::undo: the history's undo on the engine's board, then
\* the resynchronisation if it succeeded.  cmd is the command the history
\* was asked to undo.
UserUndo ==
  /\ ~panicked
  /\ \E x \in {AppWithHistory(App, HistoryUndo(undo_stack, redo_stack,
                                     MAX_UNDO_HISTORY, board))} :
     \E a \in {IF IsSuccess(x.result) THEN Resync(x.app, 0) ELSE x.app} :
       AppStep("undo", a,
               IF can_undo(undo_stack) THEN <<Back(undo_stack)>> ELSE <<>>,
               x.result)

\* The redo key, App::redo.  cmd is the command the history was asked to
\* redo.
UserRedo ==
  /\ ~panicked
  /\ \E x \in {AppWithHistory(App, HistoryRedo(undo_stack, redo_stack,
                                     MAX_UNDO_HISTORY, board))} :
     \E a \in {IF IsSuccess(x.result) THEN Resync(x.app, 0) ELSE x.app} :
       AppStep("redo", a,
               IF can_redo(redo_stack) THEN <<Back(redo_stack)>> ELSE <<>>,
               x.result)

NextApp ==
  \/ UserSelectNextColumn
  \/ UserSelectPrevColumn
  \/ UserSelectNextCard
  \/ UserSelectPrevCard
  \/ UserDisableSelection
  \/ UserInsertCard
  \/ UserRemoveCard
  \/ UserUpdateCard
  \/ UserIncreasePriority
  \/ UserDecreasePriority
  \/ UserMarkCardDone
  \/ UserMarkCardUndone
  \/ UserUndo
  \/ UserRedo

SpecApp == InitApp /\ [][NextApp]_vars

\* The same App over a loaded board of AppInitCards + 1 cards that has a
\* card in every column.
SpecAppLarge ==
  /\ board \in {b \in UNION {HistoryBoards(k, AppInitCards + 1) :
                               k \in HColCounts} :
                  /\ CardCount(b) = AppInitCards + 1
                  /\ \A c \in 1..Len(b) : b[c] # <<>>}
  /\ cmd = <<>>
  /\ undo_stack = <<>>
  /\ redo_stack = <<>>
  /\ max_history = MAX_UNDO_HISTORY
  /\ result = NoResult
  /\ lastop = "init"
  /\ panicked = FALSE
  /\ before = <<>>
  /\ board0 = <<>>
  /\ execs = 0
  /\ undos = 0
  /\ selector = CardSelectorNew
  /\ state = "Normal"
  /\ [][NextApp]_vars

\* ---------------------------------------------- key events and AppState
\* self.state != State::Quit
should_continue(s) == s # "Quit"

\* handle_events closing the help popup through the Normal mode's 'q'
\* binding, which quits.
handle_events_HelpQuits ==
  \/ /\ state = "Normal"
     /\ \/ UserSelectPrevColumn                    \* 'h', Left
        \/ UserSelectNextCard                      \* 'j', Down
        \/ UserSelectPrevCard                      \* 'k', Up
        \/ UserSelectNextColumn                    \* 'l', Right
        \/ UserMarkCardUndone                      \* 'H'
        \/ UserDecreasePriority                    \* 'J'
        \/ UserIncreasePriority                    \* 'K'
        \/ UserMarkCardDone                        \* 'L'
        \/ UserInsertCard                          \* 'i', 'a', 'I', 'A'
        \/ UserRemoveCard                          \* 'x', Delete
        \/ UserUndo                                \* 'u'
        \/ UserRedo                                \* Ctrl-r
        \/ UserDisableSelection                    \* Esc
        \/ /\ ~panicked
           /\ \E key \in {"q", "?", "W", "w", "e", "other"} :
                /\ cmd' = <<[key |-> key]>>
                /\ state' =
                     CASE key = "q" -> "Quit"
                       [] key = "?" -> "Help"
                       [] key = "W" -> "Save"
                       [] key = "e" /\ SelectorGetSelectedCard(selector, board)
                                         # <<>> -> "Edit"
                       [] OTHER -> "Normal"
           /\ lastop' = "normal_key"
           /\ result' = NoResult
           /\ UNCHANGED <<board, selector, undo_stack, redo_stack, panicked,
                          max_history, before, board0, execs, undos>>
  \/ /\ state = "Edit"
     /\ \/ UserUpdateCard                          \* Ctrl-s
        \/ /\ ~panicked
           /\ \E key \in {"Esc", "Tab", "other"} :
                /\ cmd' = <<[key |-> key]>>
                /\ state' = IF key = "Esc" THEN "Normal" ELSE "Edit"
           /\ lastop' = "edit_key"
           /\ result' = NoResult
           /\ UNCHANGED <<board, selector, undo_stack, redo_stack, panicked,
                          max_history, before, board0, execs, undos>>
  \/ /\ state = "Save"
     /\ ~panicked
     /\ \E key \in {"Esc", "Enter", "other"} :
          /\ cmd' = <<[key |-> key]>>
          /\ state' = IF key = "other" THEN "Save" ELSE "Normal"
     /\ lastop' = "save_key"
     /\ result' = NoResult
     /\ UNCHANGED <<board, selector, undo_stack, redo_stack, panicked,
                    max_history, before, board0, execs, undos>>
  \/ /\ state = "Help"
     /\ ~panicked
     /\ \E key \in {"q", "?", "Esc", "other"} :
          /\ cmd' = <<[key |-> key]>>
          /\ state' = IF key = "q" THEN "Quit" ELSE "Normal"
     /\ lastop' = "help_key"
     /\ result' = NoResult
     /\ UNCHANGED <<board, selector, undo_stack, redo_stack, panicked,
                    max_history, before, board0, execs, undos>>
  \/ /\ state = "Quit"
     /\ UNCHANGED vars

\* AppState::handle_events(app, event): the key goes to the handler of the
\* current State, whose return value is the next State.  In Normal mode a
\* key bound to an operation runs it (the User actions); cmd keeps the key
\* of every other event.  The editor's and the save prompt's text is not
\* part of the model, nor is the file `w` and Enter write.  In Help the
\* event is dropped and the State is Normal again; in Quit nothing at all
\* happens.
handle_events ==
  \/ /\ state = "Normal"
     /\ \/ UserSelectPrevColumn                    \* 'h', Left
        \/ UserSelectNextCard                      \* 'j', Down
        \/ UserSelectPrevCard                      \* 'k', Up
        \/ UserSelectNextColumn                    \* 'l', Right
        \/ UserMarkCardUndone                      \* 'H'
        \/ UserDecreasePriority                    \* 'J'
        \/ UserIncreasePriority                    \* 'K'
        \/ UserMarkCardDone                        \* 'L'
        \/ UserInsertCard                          \* 'i', 'a', 'I', 'A'
        \/ UserRemoveCard                          \* 'x', Delete
        \/ UserUndo                                \* 'u'
        \/ UserRedo                                \* Ctrl-r
        \/ UserDisableSelection                    \* Esc
        \/ /\ ~panicked
           /\ \E key \in {"q", "?", "W", "w", "e", "other"} :
                /\ cmd' = <<[key |-> key]>>
                /\ state' =
                     CASE key = "q" -> "Quit"
                       [] key = "?" -> "Help"
                       [] key = "W" -> "Save"
                       [] key = "e" /\ SelectorGetSelectedCard(selector, board)
                                         # <<>> -> "Edit"
                       [] OTHER -> "Normal"
           /\ lastop' = "normal_key"
           /\ result' = NoResult
           /\ UNCHANGED <<board, selector, undo_stack, redo_stack, panicked,
                          max_history, before, board0, execs, undos>>
  \/ /\ state = "Edit"
     /\ \/ UserUpdateCard                          \* Ctrl-s
        \/ /\ ~panicked
           /\ \E key \in {"Esc", "Tab", "other"} :
                /\ cmd' = <<[key |-> key]>>
                /\ state' = IF key = "Esc" THEN "Normal" ELSE "Edit"
           /\ lastop' = "edit_key"
           /\ result' = NoResult
           /\ UNCHANGED <<board, selector, undo_stack, redo_stack, panicked,
                          max_history, before, board0, execs, undos>>
  \/ /\ state = "Save"
     /\ ~panicked
     /\ \E key \in {"Esc", "Enter", "other"} :
          /\ cmd' = <<[key |-> key]>>
          /\ state' = IF key = "other" THEN "Save" ELSE "Normal"
     /\ lastop' = "save_key"
     /\ result' = NoResult
     /\ UNCHANGED <<board, selector, undo_stack, redo_stack, panicked,
                    max_history, before, board0, execs, undos>>
  \/ /\ state = "Help"
     /\ ~panicked
     /\ \E key \in {"q", "?", "Esc", "other"} :
          cmd' = <<[key |-> key]>>
     /\ state' = "Normal"
     /\ lastop' = "help_key"
     /\ result' = NoResult
     /\ UNCHANGED <<board, selector, undo_stack, redo_stack, panicked,
                    max_history, before, board0, execs, undos>>
  \/ /\ state = "Quit"
     /\ UNCHANGED vars

\* AppState::new() over App::new: the run loop feeding key events.
SpecKeys == InitApp /\ [][handle_events]_vars

\* ================================================= properties of commands
\* The call just made was command.undo.
Undone == lastop = "undo"

\* The call just made was the undo that directly follows a successful
\* execute of the same command.
UndoneAfterExecute == lastop = "undo" /\ before # <<>>

\* C1 - round trip: whenever execute returned Success, the undo that
\* follows returns Success and every column has the card sequence (as
\* serialized) it had before execute.
C1_RoundTrip ==
  UndoneAfterExecute =>
    /\ IsSuccess(result)
    /\ Serialized(board) = Serialized(before[1])

\* C2 - atomic execute: an execute call that does not return Success leaves
\* every column's card sequence as it was before the call.
C2_AtomicExecute ==
  [][(lastop' = "execute" /\ ~IsSuccess(result'))
       => Serialized(board') = Serialized(board)]_vars

\* C3 - atomic undo: an undo call that returns Failure leaves every
\* column's card sequence as it was before the call.
C3_AtomicUndo ==
  [][(lastop' = "undo" /\ result'.kind = "Failure")
       => Serialized(board') = Serialized(board)]_vars

\* C4 - MarkCard undo restores the origin: after a successful mark_done /
\* mark_undone on the card at (col, idx), undo returns Success and the
\* board is the one before execute (the card back at (col, idx), all other
\* cards in their original order).
C4_MarkUndoRestores ==
  (UndoneAfterExecute /\ cmd[1].variant = "MarkCard") =>
    /\ IsSuccess(result)
    /\ board = before[1]

\* C5 - ChangePriority undo restores the order: after a successful increase
\* or decrease on any card of a column with two or more cards (the no-op
\* cases at index 0 and at the last index included), undo returns Success
\* and the column has the order it had before execute.
C5_PriorityUndoRestores ==
  (/\ UndoneAfterExecute
   /\ cmd[1].variant = "ChangePriority"
   /\ Len(before[1][cmd[1].column_index + 1]) >= 2) =>
    /\ IsSuccess(result)
    /\ Serialized(board)[cmd[1].column_index + 1]
         = Serialized(before[1])[cmd[1].column_index + 1]

\* C6 - double-execute guard: execute on a command that is already in the
\* Executed state returns Failure and leaves the board unchanged.
C6_DoubleExecuteGuard ==
  [][(lastop' = "execute" /\ cmd # <<>> /\ cmd[1].executed)
       => (result'.kind = "Failure" /\ board' = board)]_vars

\* C7 - undo-before-execute guard: undo on a freshly constructed command
\* returns Failure("Command was not executed") and leaves the board
\* unchanged, for every variant.
C7_UndoBeforeExecuteGuard ==
  [][(lastop = "new" /\ lastop' = "undo")
       => (/\ result' = Failure("Command was not executed")
           /\ board' = board
           /\ cmd' = cmd)]_vars

\* A fresh MarkCardCommand addressing an existing card has been undone
\* and refused.
C7_Witness ==
  /\ lastop = "undo"
  /\ cmd # <<>>
  /\ cmd[1] \in FreshCommands(board, MaxIdx)
  /\ cmd[1].variant = "MarkCard"
  /\ BoardCard(board, cmd[1].column_index, cmd[1].card_index) # <<>>
  /\ result = Failure("Command was not executed")

\* ============================================== properties of the history
\* C8 - history symmetry: after N <= max_history successful
\* execute_command calls on a new history, each of the N undo calls that
\* follow returns Success, and after the last one the board is the one
\* the sequence started from, can_undo() is false, can_redo() is true and
\* redo_count() = N.
C8_HistorySymmetry ==
  (Tracked /\ lastop = "h_undo" /\ execs <= max_history) =>
    /\ IsSuccess(result)
    /\ undos = execs =>
         /\ board = board0[1]
         /\ ~can_undo(undo_stack)
         /\ can_redo(redo_stack)
         /\ redo_count(redo_stack) = execs

\* C9 - eviction: after max_history + 1 successful execute_command calls
\* on a new history undo_count() = max_history; a push onto a full undo
\* stack drops its oldest entry; and the evicted first command is on
\* neither stack while undo calls follow, so no undo can invert it.
C9_Eviction ==
  /\ [](Tracked /\ execs = max_history + 1 =>
          /\ undos = 0 => undo_count(undo_stack) = max_history
          /\ undo_count(undo_stack) + redo_count(redo_stack) <= max_history)
  /\ [][(/\ lastop' = "h_execute"
         /\ IsSuccess(result')
         /\ undo_count(undo_stack) >= max_history
         /\ can_undo(undo_stack))
          => PopBack(undo_stack') = Tail(undo_stack)]_vars

\* C10 - bounded stacks: undo_count() <= N and redo_count() <= N after
\* every call, N being the capacity given to with_max_history.
C10_BoundedStacks ==
  /\ undo_count(undo_stack) <= max_history
  /\ redo_count(redo_stack) <= max_history

\* C11 - no branching timelines: after every execute_command call,
\* whatever its command returned, the redo stack is empty; when the result
\* is Success the command is the top of the undo stack, above what the
\* stack held (less the evicted oldest entry), and otherwise the undo stack
\* is as it was.
C11_NoBranchingTimelines ==
  [][lastop' = "h_execute" =>
       /\ ~can_redo(redo_stack')
       /\ IF IsSuccess(result')
            THEN /\ can_undo(undo_stack')
                 /\ Back(undo_stack') = cmd'[1]
                 /\ PopBack(undo_stack') \in {undo_stack, PopFront(undo_stack)}
            ELSE undo_stack' = undo_stack]_vars

\* An execute_command call has just returned Failure on a history that
\* holds a command to undo: the failed command was discarded.
C11_Witness ==
  /\ lastop = "h_execute"
  /\ result.kind = "Failure"
  /\ can_undo(undo_stack)
  /\ ~can_redo(redo_stack)
  /\ cmd # <<>>
  /\ ~cmd[1].executed

AtColumnBoundary(c, b) ==
  /\ c.variant = "MarkCard"
  /\ ~c.executed
  /\ BoardCard(b, c.column_index, c.card_index) # <<>>
  /\ \/ c.mark_done /\ c.column_index = columns_count(b) - 1
     \/ ~c.mark_done /\ c.column_index = 0

\* C13 - boundary mark is rejected: mark_done on a card of the last
\* column and mark_undone on a card of column 0 return
\* Failure("Cannot mark card done/undone at column boundary"); the board
\* (card sequences and selection flags) is unchanged, the command stays
\* unexecuted, and a history given that command pushes nothing.
C13_BoundaryMark ==
  [][(lastop' = "execute" /\ cmd # <<>> /\ AtColumnBoundary(cmd[1], board)) =>
       /\ result' = Failure("Cannot mark card done/undone at column boundary")
       /\ board' = board
       /\ ~cmd'[1].executed
       /\ \A m \in 0..MaxCap :
            ~can_undo(HistoryExecuteCommand(<<>>, <<>>, m, cmd[1],
                                            board).undo_stack)]_vars

\* mark_done has just been refused on the selected card of the last of
\* two columns.
C13_Witness ==
  /\ lastop = "execute"
  /\ cmd # <<>>
  /\ cmd[1].variant = "MarkCard"
  /\ cmd[1].mark_done
  /\ ~cmd[1].executed
  /\ columns_count(board) = 2
  /\ cmd[1].column_index = 1
  /\ BoardCard(board, 1, cmd[1].card_index) # <<>>
  /\ BoardCard(board, 1, cmd[1].card_index)[1].is_selected
  /\ result = Failure("Cannot mark card done/undone at column boundary")

NavigationCalls ==
  {"select_next_column", "select_prev_column",
   "select_next_card", "select_prev_card"}

\* C18 - first navigation only enables: on a selector whose selection is
\* disabled (fresh, or after disable_selection) any navigation call sets
\* enabled and returns the cursor without moving it, (0,0) on a fresh
\* selector.
C18_FirstNavigationOnlyEnables ==
  [][(lastop' \in NavigationCalls /\ ~selector.selection_enabled) =>
       /\ selector'.selection_enabled
       /\ Cursor(selector') = Cursor(selector)
       /\ result' = Returned(Cursor(selector))
       /\ lastop = "init" => result' = Returned(<<0, 0>>)]_vars

\* A navigation call has just enabled a selector that had been disabled
\* away from (0,0), and left the cursor there.
C18_Witness ==
  /\ lastop \in NavigationCalls
  /\ selector.selection_enabled
  /\ selector.selected_column = 1
  /\ selector.selected_card = 1
  /\ Len(board[2]) = 2
  /\ result = Returned(<<1, 1>>)

\* The cursor of sel addresses a column of b and a card of that column,
\* or index 0 of an empty column.
Clamped(sel, b) ==
  /\ sel.selected_column < columns_count(b)
  /\ IF Len(b[sel.selected_column + 1]) = 0
       THEN sel.selected_card = 0
       ELSE sel.selected_card < Len(b[sel.selected_column + 1])

Distance(a, b) == IF a >= b THEN a - b ELSE b - a

\* C19 - the cursor is clamped: after every navigation call that moves the
\* cursor (a call on an enabled selector) and after every set(col, idx),
\* the cursor addresses an existing column and a card of it (index 0 when
\* the column is empty); a column call moves the column index by at most
\* one, a card call leaves the column and moves the card index by at most
\* one.
C19_CursorClamped ==
  [][/\ (lastop' = "set" \/ (lastop' \in NavigationCalls
                               /\ selector.selection_enabled))
        => Clamped(selector', board')
     /\ (lastop' \in {"select_next_column", "select_prev_column"}
         /\ selector.selection_enabled)
        => Distance(selector'.selected_column, selector.selected_column) <= 1
     /\ (lastop' \in {"select_next_card", "select_prev_card"}
         /\ selector.selection_enabled)
        => /\ selector'.selected_column = selector.selected_column
           /\ Distance(selector'.selected_card, selector.selected_card) <= 1
    ]_vars

\* select_next_column has just moved the cursor into a shorter column and
\* the card index was pulled back to that column's last card.
C19_Witness ==
  /\ lastop = "select_next_column"
  /\ columns_count(board) = 2
  /\ Len(board[1]) = 2
  /\ Len(board[2]) = 1
  /\ selector.selection_enabled
  /\ Cursor(selector) = <<1, 0>>

\* C20 - disable_selection changes only the enabled flag: after it get()
\* is None, the cursor coordinates are as they were and no card's
\* is_selected flag has changed; get() is Some(cursor) exactly when the
\* selection is enabled.
C20_DisableSelectionFrame ==
  [][/\ lastop' = "disable_selection"
        => /\ SelectorGet(selector') = <<>>
           /\ Cursor(selector') = Cursor(selector)
           /\ board' = board
     /\ lastop' = "get"
        => result' = Returned(IF selector.selection_enabled
                                THEN <<Cursor(selector)>> ELSE <<>>)
    ]_vars

\* disable_selection has just been called with the cursor on the selected
\* second card of the second column.
C20_Witness ==
  /\ lastop = "disable_selection"
  /\ ~selector.selection_enabled
  /\ Cursor(selector) = <<1, 1>>
  /\ BoardCard(board, 1, 1) # <<>>
  /\ BoardCard(board, 1, 1)[1].is_selected

\* The (column, card) positions of the cards whose is_selected is true.
FlaggedCards(b) ==
  {p \in UNION {{<<c, i>> : i \in 0..(Len(b[c + 1]) - 1)} :
                c \in 0..(Len(b) - 1)} :
     b[p[1] + 1][p[2] + 1].is_selected}

\* C14: after every completed operation of the App (navigation,
\* disable_selection, insert, remove, update, priority change, mark, and
\* undo/redo of the commands they pushed) at most one card on the whole
\* board has is_selected = true.
C14_AtMostOneSelected ==
  ~panicked => Cardinality(FlaggedCards(board)) <= 1

\* C16: after an undo or redo of a structural command (insert, remove,
\* move, mark, priority change) that succeeded while selection is enabled,
\* the selector's cursor addresses a card that carries is_selected = true;
\* over an empty column, where the cursor addresses no card, no card
\* carries it.
C16_CursorResync ==
  (/\ lastop \in {"undo", "redo"}
   /\ ~panicked
   /\ IsSuccess(result)
   /\ cmd # <<>>
   /\ cmd[1].variant \in {"Insert", "Remove", "Move", "MarkCard",
                          "ChangePriority"}
   /\ selector.selection_enabled) =>
    IF ColumnSizeOr0(board, selector.selected_column) > 0
      THEN Cursor(selector) \in FlaggedCards(board)
      ELSE FlaggedCards(board) = {}

\* C17: after every navigation, insert, remove, priority change and mark
\* of the App performed with selection enabled, the card at the cursor is
\* the unique flagged card when the cursor's column is non-empty, and no
\* card is flagged when it is empty.
C17_CursorAndFlagAgree ==
  (/\ lastop \in {"select_next_column", "select_prev_column",
                  "select_next_card", "select_prev_card", "insert_card",
                  "remove_card", "increase_priority", "decrease_priority",
                  "mark_card_done", "mark_card_undone"}
   /\ ~panicked
   /\ selector.selection_enabled) =>
    IF ColumnSizeOr0(board, selector.selected_column) > 0
      THEN FlaggedCards(board) = {Cursor(selector)}
      ELSE FlaggedCards(board) = {}

\* C21: a Board primitive called with an index outside the current bounds
\* (insert_card with an index greater than the column's size; select_card,
\* deselect_card, update_card or remove_card with an index >= size on a
\* non-empty column; increase_priority, decrease_priority, mark_card_done
\* or mark_card_undone on a column that does not exist) does not panic and
\* does not change the board.
C21_OutOfRangeFailsCleanly ==
  [][(\/ /\ lastop' = "insert_card"
         /\ cmd'[1].column_index < Len(board)
         /\ cmd'[1].card_index > Len(board[cmd'[1].column_index + 1])
      \/ /\ lastop' \in {"select_card", "deselect_card", "update_card",
                         "remove_card"}
         /\ cmd'[1].column_index < Len(board)
         /\ Len(board[cmd'[1].column_index + 1]) > 0
         /\ cmd'[1].card_index >= Len(board[cmd'[1].column_index + 1])
      \/ /\ lastop' \in {"increase_priority", "decrease_priority",
                         "mark_card_done", "mark_card_undone"}
         /\ cmd'[1].column_index >= Len(board))
     => (result'.kind # "Panic" /\ board' = board)]_vars

\* C22: no sequence of App operations (navigation, disable_selection,
\* insert, remove, update, priority change, mark, undo, redo) from a loaded
\* board reaches a panic.
C22_NoOperationIsFatal == ~panicked

\* C23: remove_card on a column with a valid index deletes exactly the card
\* at that index, keeps the order of the other cards, leaves the other
\* columns alone and returns min(idx, new_size - 1), or 0 when the column
\* becomes empty; on an empty column it changes nothing and returns 0.
C23_RemoveCardResult ==
  [][(lastop' = "remove_card" /\ cmd'[1].column_index < Len(board)) =>
       LET c == cmd'[1].column_index
           idx == cmd'[1].card_index
           cards == board[c + 1]
       IN  /\ idx < Len(cards) =>
                /\ result'.kind = "Ok"
                /\ Len(board'[c + 1]) = Len(cards) - 1
                /\ \A j \in 1..(Len(cards) - 1) :
                     board'[c + 1][j] = IF j <= idx THEN cards[j]
                                                   ELSE cards[j + 1]
                /\ \A o \in 1..Len(board) : o # c + 1 => board'[o] = board[o]
                /\ result'.msg = <<c, IF Len(cards) = 1 THEN 0
                                      ELSE IF idx < Len(cards) - 2 THEN idx
                                      ELSE Len(cards) - 2>>
           /\ Len(cards) = 0 =>
                /\ result'.kind = "Ok"
                /\ board' = board
                /\ result'.msg = <<c, 0>>]_vars

\* remove_card has just removed the last of three cards of a column and
\* returned the index of the new last card.
C23_Witness ==
  /\ lastop = "remove_card"
  /\ result.kind = "Ok"
  /\ cmd[1].column_index < Len(board)
  /\ cmd[1].card_index = 2
  /\ Len(board[cmd[1].column_index + 1]) = 2
  /\ result.msg = <<cmd[1].column_index, 1>>

\* C24: on a board with k >= 1 columns, mark_card_done with col < k - 1
\* and a valid index moves exactly the card at (col, idx) to index 0 of
\* column col + 1, keeps the order of all other cards and returns
\* (col + 1, 0); with col = k - 1 it changes nothing and returns
\* (col, idx).  mark_card_undone is symmetric towards col - 1 and changes
\* nothing, returning its input, at column 0.
C24_MarkMovesToTop ==
  [][(lastop' \in {"mark_card_done", "mark_card_undone"}
      /\ cmd'[1].column_index < Len(board)) =>
       LET c == cmd'[1].column_index
           idx == cmd'[1].card_index
           done == lastop' = "mark_card_done"
           edge == IF done THEN c = Len(board) - 1 ELSE c = 0
           to == IF done THEN c + 1 ELSE c - 1
           cards == board[c + 1]
       IN  /\ edge =>
                /\ result'.kind = "Ok"
                /\ board' = board
                /\ result'.msg = <<c, idx>>
           /\ (~edge /\ idx < Len(cards)) =>
                /\ result'.kind = "Ok"
                /\ result'.msg = <<to, 0>>
                /\ board'[to + 1] = <<cards[idx + 1]>> \o board[to + 1]
                /\ Len(board'[c + 1]) = Len(cards) - 1
                /\ \A j \in 1..(Len(cards) - 1) :
                     board'[c + 1][j] = IF j <= idx THEN cards[j]
                                                   ELSE cards[j + 1]
                /\ \A o \in 1..Len(board) :
                     o \notin {c + 1, to + 1} => board'[o] = board[o]]_vars

\* mark_card_done has just moved the second card of column 0 on top of a
\* card of column 1.
C24_Witness ==
  /\ lastop = "mark_card_done"
  /\ result = [kind |-> "Ok", msg |-> <<1, 0>>]
  /\ cmd[1] = [column_index |-> 0, card_index |-> 1]
  /\ Len(before[1]) = 2
  /\ Len(before[1][1]) = 2
  /\ Len(before[1][2]) = 1
  /\ board[2] = <<before[1][1][2]>> \o before[1][2]

\* C25: for every column, empty ones included, and every index, out of
\* range ones included, increase_priority swaps the card with its
\* predecessor and returns idx - 1 when 0 < idx < size and otherwise leaves
\* the column unchanged and returns idx; decrease_priority swaps the card
\* with its successor and returns idx + 1 when idx < size - 1 and otherwise
\* leaves the column unchanged and returns idx.
C25_PriorityPrimitives ==
  [][(lastop' \in {"increase_priority", "decrease_priority"}
      /\ cmd'[1].column_index < Len(board)) =>
       LET c == cmd'[1].column_index
           idx == cmd'[1].card_index
           cards == board[c + 1]
           up == lastop' = "increase_priority"
           moves == IF up THEN 0 < idx /\ idx < Len(cards)
                          ELSE idx < Len(cards) - 1
           to == IF up THEN idx - 1 ELSE idx + 1
       IN  /\ result'.kind = "Ok"
           /\ \A o \in 1..Len(board) : o # c + 1 => board'[o] = board[o]
           /\ moves =>
                /\ result'.msg = <<c, to>>
                /\ board'[c + 1] =
                     [cards EXCEPT ![idx + 1] = cards[to + 1],
                                   ![to + 1] = cards[idx + 1]]
           /\ ~moves =>
                /\ result'.msg = <<c, idx>>
                /\ board'[c + 1] = cards]_vars

\* C26: after MoveCardCommand(src_col, src_idx, tgt_col, tgt_idx) executes
\* successfully the moved card sits at (tgt_col, actual_target_index),
\* where actual_target_index is tgt_idx - 1 for a same-column move with
\* src_idx < tgt_idx and tgt_idx otherwise, clamped to the insertion range
\* of the target column; all other cards keep their order, and the
\* recorded actual_target_index is the index the card really has.
C26_MovePlacement ==
  [][(lastop' = "execute" /\ cmd'[1].variant = "MoveCard"
      /\ IsSuccess(result')) =>
       LET c == cmd'[1]
           sc == c.source_column_index
           si == c.source_card_index
           tc == c.target_column_index
           ti == c.target_card_index
           card == board[sc + 1][si + 1]
           rest == [board EXCEPT ![sc + 1] = RemoveAt(@, si)]
           nominal == IF sc = tc /\ si < ti THEN ti - 1 ELSE ti
           actual == Min(nominal, Len(rest[tc + 1]))
       IN  /\ c.actual_target_index = <<actual>>
           /\ Len(board'[tc + 1]) > actual
           /\ board'[tc + 1][actual + 1] = card
           /\ [board' EXCEPT ![tc + 1] = RemoveAt(@, actual)] = rest]_vars

\* A card has just been moved from the top of a three-card column to
\* nominal index 2 of the same column, and sits at index 1.
C26_Witness ==
  /\ lastop = "execute"
  /\ IsSuccess(result)
  /\ cmd[1].variant = "MoveCard"
  /\ cmd[1].source_column_index = 0 /\ cmd[1].target_column_index = 0
  /\ cmd[1].source_card_index = 0 /\ cmd[1].target_card_index = 2
  /\ cmd[1].actual_target_index = <<1>>
  /\ Len(board[1]) = 3
  /\ board[1][2] = before[1][1][1]
  /\ board[1][1] = before[1][1][2]

\* C27: for every successful MoveCardCommand, within a column or across
\* columns, with a nominal target inside or beyond the target column, the
\* undo that follows succeeds: it removes the card at the actual target
\* index, reinserts it at the original source index, and the board equals
\* the board before the execute.
C27_MoveUndoRestores ==
  [][(lastop = "execute" /\ IsSuccess(result)
      /\ cmd[1].variant = "MoveCard" /\ lastop' = "undo") =>
       LET c == cmd[1]
           taken == [board EXCEPT ![c.target_column_index + 1] =
                                    RemoveAt(@, c.actual_target_index[1])]
       IN  /\ IsSuccess(result')
           /\ board' = [taken EXCEPT ![c.source_column_index + 1] =
                           InsertAt(@, c.source_card_index, c.card[1])]
           /\ board' = before[1]]_vars

\* A move from index 0 to a nominal index beyond the end of the same
\* two-card column has been undone.
C27_Witness ==
  /\ lastop = "undo"
  /\ IsSuccess(result)
  /\ before # <<>>
  /\ cmd[1].variant = "MoveCard"
  /\ cmd[1].source_card_index = 0
  /\ cmd[1].target_card_index = 3
  /\ cmd[1].source_column_index = 0
  /\ cmd[1].target_column_index = 0
  /\ cmd[1].actual_target_index = <<1>>
  /\ Len(board[1]) = 2
  /\ board = before[1]

\* C28: for every command variant, once execute_command has succeeded and
\* the undo that followed has succeeded, redo returns Success, leaves the
\* board as it was right after the first execute and moves the command
\* back to the undo stack; the next undo succeeds and leaves the board as
\* the first undo left it, and so on, however often the cycle is repeated.
C28_RedoReapplies ==
  [][/\ (lastop = "h_undo" /\ Len(before) = 2 /\ lastop' = "h_redo") =>
          /\ IsSuccess(result')
          /\ board' = before[1]
          /\ redo_stack' = PopBack(redo_stack)
          /\ undo_stack' # <<>>
          /\ Back(undo_stack').executed
          /\ description(Back(undo_stack')) = description(Back(redo_stack))
     /\ (lastop = "h_redo" /\ Len(before) = 2 /\ lastop' = "h_undo") =>
          /\ IsSuccess(result')
          /\ board' = before[2]
          /\ undo_stack' = PopBack(undo_stack)
          /\ redo_stack' # <<>>]_vars

\* C29: undo inverts the most recently executed command that has not been
\* undone and redo re-executes the most recently undone command, so the
\* commands of both stacks, read from the bottom of the undo stack to the
\* top and on from the top of the redo stack to its bottom, keep their
\* execution order through every undo and redo;
\* last_undo_description() and last_redo_description() give the
\* description of exactly the command the next undo, the next redo, will
\* act on, and None when their stack is empty.
C29_LifoOrdering ==
  [][LET Descriptions(s) == [i \in 1..Len(s) |-> description(s[i])]
         Reversed(s) == [i \in 1..Len(s) |-> s[Len(s) + 1 - i]]
         Timeline(u, r) == Descriptions(u) \o Reversed(Descriptions(r))
     IN  /\ (lastop' = "h_execute" /\ IsSuccess(result')) =>
              /\ last_undo_description(undo_stack') =
                   <<description(cmd'[1])>>
              /\ last_redo_description(redo_stack') = <<>>
         /\ (lastop' = "h_undo" /\ undo_stack # <<>>) =>
              /\ board' = Undo(Back(undo_stack), board).board
              /\ IsSuccess(result') =>
                   /\ undo_stack' = PopBack(undo_stack)
                   /\ last_redo_description(redo_stack') =
                        last_undo_description(undo_stack)
                   /\ Timeline(undo_stack', redo_stack') =
                        Timeline(undo_stack, redo_stack)
         /\ (lastop' = "h_redo" /\ redo_stack # <<>>) =>
              /\ board' = Execute(Back(redo_stack), board).board
              /\ IsSuccess(result') =>
                   /\ redo_stack' = PopBack(redo_stack)
                   /\ last_undo_description(undo_stack') =
                        last_redo_description(redo_stack)
                   /\ Timeline(undo_stack', redo_stack') =
                        Timeline(undo_stack, redo_stack)
         /\ (undo_stack' = <<>>) =
              (last_undo_description(undo_stack') = <<>>)
         /\ (redo_stack' = <<>>) =
              (last_redo_description(redo_stack') = <<>>)]_vars

\* Two different commands were executed and both undone, and the older one
\* has been redone: it is the next to undo, the younger one the next to
\* redo.
C29_Witness ==
  /\ lastop = "h_redo"
  /\ IsSuccess(result)
  /\ Len(undo_stack) = 1
  /\ Len(redo_stack) = 1
  /\ last_undo_description(undo_stack) = <<"Insert card">>
  /\ last_redo_description(redo_stack) = <<"Remove card">>

\* C30: undo on an empty undo stack returns Failure("Nothing to undo") and
\* redo on an empty redo stack returns Failure("Nothing to redo"); neither
\* returns an error nor panics, and both leave the board and both stacks
\* unchanged.
C30_EmptyStackUndoRedo ==
  [][/\ (lastop' = "h_undo" /\ undo_stack = <<>>) =>
          /\ result' = Failure("Nothing to undo")
          /\ ~panicked'
          /\ UNCHANGED <<board, undo_stack, redo_stack>>
     /\ (lastop' = "h_redo" /\ redo_stack = <<>>) =>
          /\ result' = Failure("Nothing to redo")
          /\ ~panicked'
          /\ UNCHANGED <<board, undo_stack, redo_stack>>]_vars

\* undo has just been refused on a history whose only command sits on the
\* redo stack.
C30_Witness ==
  /\ lastop = "h_undo"
  /\ result = Failure("Nothing to undo")
  /\ undo_stack = <<>>
  /\ redo_stack # <<>>

\* C31: while the selection is disabled, insert_card at any position,
\* remove_card, update_card, increase_priority, decrease_priority,
\* mark_card_done and mark_card_undone leave the board, the cursor and
\* both history stacks unchanged, and insert_card returns None (the
\* get_selected_card() it ends with).
C31_MutationsNeedSelection ==
  [][(~selector.selection_enabled
      /\ lastop' \in {"insert_card", "remove_card", "update_card",
                      "increase_priority", "decrease_priority",
                      "mark_card_done", "mark_card_undone"}) =>
       /\ UNCHANGED <<board, selector, undo_stack, redo_stack>>
       /\ ~panicked'
       /\ lastop' = "insert_card" =>
            SelectorGetSelectedCard(selector', board') = <<>>]_vars

\* insert_card has been called with the selection disabled, on a board
\* with cards and a history with a command to undo.
C31_Witness ==
  /\ lastop = "insert_card"
  /\ ~selector.selection_enabled
  /\ undo_stack # <<>>
  /\ CardCount(board) > 0

\* C32: with the selection enabled and the cursor at (c, i) in a column of
\* size s, insert_card(Current / Next / Top / Bottom) inserts one new
\* "TODO" card at index min(i, s) / min(i + 1, s) / 0 / s of column c and
\* shifts the later cards right, clears the flag of the card that was at
\* the cursor, flags the new card, moves the cursor to it and pushes
\* exactly one command on the undo stack.
C32_AppInsert ==
  [][(lastop' = "insert_card" /\ selector.selection_enabled
      /\ selector.selected_column < Len(board)) =>
       LET c == selector.selected_column
           i == selector.selected_card
           cards == board[c + 1]
           s == Len(cards)
           position == cmd'[1].position
           index == CASE position = "Current" -> Min(i, s)
                      [] position = "Next" -> Min(i + 1, s)
                      [] position = "Top" -> 0
                      [] OTHER -> s
           cleared == [k \in 1..s |->
                         IF k = i + 1 THEN CardDeselect(cards[k])
                                      ELSE cards[k]]
       IN  /\ ~panicked'
           /\ board' = [board EXCEPT ![c + 1] =
                          InsertAt(cleared, index, CardSelect(Card(0)))]
           /\ selector' = [selector EXCEPT !.selected_card = index]
           /\ Len(undo_stack') = Len(undo_stack) + 1
           /\ PopBack(undo_stack') = undo_stack
           /\ Back(undo_stack').variant = "Insert"]_vars

\* C33: with the selection enabled and the cursor at (c, i) on an existing
\* card, remove_card deletes that card; if the column still has cards the
\* cursor is (c, min(i, new_size - 1)) and the card there is flagged, and
\* if the column became empty the cursor is (c, 0) and no card is flagged.
\* With the cursor on an empty column remove_card leaves the board, the
\* cursor and both history stacks unchanged.
C33_AppRemove ==
  [][(lastop' = "remove_card" /\ selector.selection_enabled
      /\ selector.selected_column < Len(board)) =>
       LET c == selector.selected_column
           i == selector.selected_card
           cards == board[c + 1]
           Plain(col) == [k \in 1..Len(col) |-> CardDeselect(col[k])]
       IN  /\ i < Len(cards) =>
                /\ ~panicked'
                /\ Plain(board'[c + 1]) = Plain(RemoveAt(cards, i))
                /\ \A o \in 1..Len(board) :
                     o # c + 1 => board'[o] = board[o]
                /\ selector'.selection_enabled
                /\ IF Len(cards) > 1
                     THEN /\ Cursor(selector') =
                               <<c, Min(i, Len(cards) - 2)>>
                          /\ Cursor(selector') \in FlaggedCards(board')
                     ELSE /\ Cursor(selector') = <<c, 0>>
                          /\ FlaggedCards(board') = {}
           /\ Len(cards) = 0 =>
                UNCHANGED <<board, selector, undo_stack, redo_stack>>]_vars

C35_CardConservation ==
  [][lastop' \in {"h_execute", "h_undo", "h_redo"} =>
       LET acted == CASE lastop' = "h_execute" -> cmd'
                      [] lastop' = "h_undo" /\ undo_stack # <<>> ->
                           <<Back(undo_stack)>>
                      [] lastop' = "h_redo" /\ redo_stack # <<>> ->
                           <<Back(redo_stack)>>
                      [] OTHER -> <<>>
           executes == lastop' \in {"h_execute", "h_redo"}
           change == IF acted = <<>> \/ ~IsSuccess(result') THEN 0
                     ELSE CASE acted[1].variant = "Insert" ->
                                 IF executes THEN 1 ELSE -1
                            [] acted[1].variant = "Remove" ->
                                 IF executes THEN -1 ELSE 1
                            [] OTHER -> 0
       IN  CardCount(board') = CardCount(board) + change]_vars

\* C36: after any sequence of execute_command, undo and redo calls, failed
\* ones included, every command on the undo stack is in the Executed state
\* and every command on the redo stack is in the Unexecuted state.
C36_StackStateAgreement ==
  /\ \A i \in 1..Len(undo_stack) : undo_stack[i].executed
  /\ \A i \in 1..Len(redo_stack) : ~redo_stack[i].executed

\* An undo has just failed on a MarkCard command, which is back on the undo
\* stack, while an undone command waits on the redo stack.
C36_Witness ==
  /\ lastop = "h_undo"
  /\ result.kind = "Failure"
  /\ undo_stack # <<>>
  /\ Back(undo_stack).variant = "MarkCard"
  /\ Back(undo_stack).executed
  /\ redo_stack # <<>>
  /\ ~Back(redo_stack).executed

\* C37: for max_history >= 1, undo_count() + redo_count() <= max_history
\* after every execute_command, undo and redo call, and the sum grows
\* through execute_command only; so the eviction branch inside redo never
\* removes an entry from the undo stack.
C37_CombinedHistoryBound ==
  [][max_history >= 1 =>
       /\ undo_count(undo_stack') + redo_count(redo_stack') <= max_history
       /\ lastop' \in {"h_undo", "h_redo"} =>
            undo_count(undo_stack') + redo_count(redo_stack')
              <= undo_count(undo_stack) + redo_count(redo_stack)
       /\ (lastop' = "h_redo" /\ IsSuccess(result')) =>
            /\ undo_count(undo_stack) < max_history
            /\ PopBack(undo_stack') = undo_stack]_vars

\* A redo has just filled the undo stack up to max_history, above the
\* command that was already there.
C37_Witness ==
  /\ lastop = "h_redo"
  /\ IsSuccess(result)
  /\ max_history >= 2
  /\ undo_count(undo_stack) = max_history
  /\ redo_count(redo_stack) = 0

\* C38: from every history state reached by executing commands of any
\* variant, if from some point on no command is executed or redone and
\* only undo is called, can_undo() becomes false after that point (and
\* then stays false, undo never pushing onto an empty stack): no command
\* stays on top of the undo stack failing every retry.
C38_UndoAlwaysDrains ==
  <>[](lastop = "h_undo") => <>[](~can_undo(undo_stack))

\* C39: mark_card_done and mark_card_undone on an existing column return
\* a position different from their input only when the board changed (a
\* card was relocated); when there is no card at (col, idx) the board is
\* unchanged and the position returned is the input.
C39_MarkReturnFaithful ==
  [][(lastop' \in {"mark_card_done", "mark_card_undone"}
      /\ cmd'[1].column_index < Len(board)
      /\ result'.kind = "Ok") =>
       LET c == cmd'[1].column_index
           idx == cmd'[1].card_index
       IN  /\ result'.msg # <<c, idx>> => board' # board
           /\ idx >= Len(board[c + 1]) =>
                /\ board' = board
                /\ result'.msg = <<c, idx>>]_vars

====
